---- MODULE Spec2Model ----
(***************************************************************************)
(* Model of the order-fulfilment pipeline of cmpe273-comm-models-lab.      *)
(*                                                                         *)
(* Part 1: the RabbitMQ inventory consumer                                 *)
(* (src/async-rabbitmq/inventory_service/app.py): the in-memory ledger and *)
(* idempotency set, the message handler on_order_placed and the consuming  *)
(* loop main() with get_connection() and setup_channel().                  *)
(*                                                                         *)
(* Part 2: the RabbitMQ order service                                      *)
(* (src/async-rabbitmq/order_service/app.py): the orders map behind        *)
(* orders_lock, the HTTP handlers place_order, get_order and list_orders,  *)
(* one thread per request, and the status_consumer thread with on_status.  *)
(*                                                                         *)
(* Part 3: the Kafka inventory consumer                                    *)
(* (src/streaming-kafka/inventory_consumer/app.py): the stock of main(),   *)
(* the order topic with the committed offset of the group, and the topics  *)
(* the consumer produces to.                                               *)
(*                                                                         *)
(* A message body is a sequence of JSON tokens.  json.loads is a recursive *)
(* descent parser over the tokens and json.dumps writes tokens with        *)
(* Python's default separators, so that decoding, re-encoding and the      *)
(* texts built by the handler are computed, not assumed.                   *)
(***************************************************************************)
EXTENDS Integers, Sequences, FiniteSets, TLC

VARIABLES
    inventory,          \* inventory: item name -> remaining quantity
    processed_orders,   \* set of (hash keys of) order ids already reserved
    inventory_queue,    \* broker: ready messages of inventory_queue, head first
    unacked,            \* broker: messages delivered on a dead connection, not yet requeued
    dlq_queue,          \* broker: bodies stored in dlq_queue
    exchange_out,       \* broker: outcome messages routed through the exchange
    pc,                 \* main(): "connect" | "consuming" | "exited"
    published,          \* number of messages producers have published so far
    deliveries,         \* history: one record per call of on_order_placed
    conn,               \* main(): conn, "none" | "open" | "lost"
    ch,                 \* main(): the calls made on the channel ch of conn
    attempts,           \* get_connection(): what each attempt of the call did
    exit_code           \* the code the process exited with, -1 while it runs

\* What main() and get_connection() hold besides pc.
mainVars == <<conn, ch, attempts, exit_code>>

\* The order service.
VARIABLES
    orders,             \* orders: order id -> order record
    orders_lock,        \* holder of orders_lock: "free", "status" or a request number
    reqs,               \* HTTP requests so far: one handler thread each
    status_pc,          \* status_consumer(): "connect" | "consuming" | "lock" | "locked" | "ended"
    status_msg,         \* on_status: the decoded message in hand, between its steps
    status_consumed,    \* number of messages of order_status_queue acknowledged so far
    status_log,         \* history: one record per call of on_status
    order_exit_code     \* the code the order service process exited with, -1 while it runs

orderVars == <<orders, orders_lock, reqs, status_pc, status_msg, status_consumed,
               status_log, order_exit_code>>

\* The Kafka inventory consumer.
VARIABLES
    stock,              \* main(): stock, item id -> quantity, of the running process
    order_topic,        \* the log of the order topic
    committed,          \* offset committed by the group: number of messages done with
    inventory_topic,    \* messages produced to the inventory topic
    dlq_topic,          \* messages produced to the DLQ topic
    kafka_log,          \* history: one record per message the loop took
    kafka_crashes       \* number of times the consumer process died and was started again

kafkaVars == <<stock, order_topic, committed, inventory_topic, dlq_topic,
               kafka_log, kafka_crashes>>

\* The synchronous REST services.
VARIABLES
    store_inventory,        \* inventory service: store._inventory, item id -> count
    INVENTORY_FAIL_MODE,    \* inventory service: forced failure mode
    INVENTORY_DELAY_MS,     \* inventory service: artificial delay of /reserve
    rest_orders,            \* order service: one record per call of create_order
    reserve_calls,          \* history: one record per call of store.reserve
    notifications           \* notification service: the order ids /send was called for

restVars == <<store_inventory, INVENTORY_FAIL_MODE, INVENTORY_DELAY_MS, rest_orders,
              reserve_calls, notifications>>

\* What the RabbitMQ inventory consumer and its broker queues leave alone.
outsideRabbit == <<orderVars, kafkaVars, restVars>>

rabbitVars == <<inventory, processed_orders, inventory_queue, unacked, dlq_queue,
                exchange_out, pc, published, deliveries, conn, ch, attempts,
                exit_code>>

vars == <<rabbitVars, orderVars, kafkaVars, restVars>>

(***************************************************************************)
(* Bounds of the model.                                                    *)
(***************************************************************************)
MaxPublished == 2
MaxDeliveries == 3
MaxRequests == 1
MaxOutcomes == 1
MaxCrashes == 1
MaxOrders == 2

(***************************************************************************)
(* Python / JSON values.  Every value is a record of the same shape:       *)
(*   t     the type: "str" "int" "float" "bool" "null" "list" "dict"       *)
(*   s     the text of a str, or the literal of a float                    *)
(*   n     the number of an int; 1/0 for a bool                            *)
(*   items the elements of a list; the "pair" entries of a dict, in        *)
(*         insertion order (a pair keeps its key in s, its value in items) *)
(***************************************************************************)
Val(t, s, n, items) == [t |-> t, s |-> s, n |-> n, items |-> items]
Str(x) == Val("str", x, 0, <<>>)
Num(k) == Val("int", "", k, <<>>)
Flt(x) == Val("float", x, 0, <<>>)
Bool(b) == Val("bool", "", IF b THEN 1 ELSE 0, <<>>)
None == Val("null", "", 0, <<>>)
List(xs) == Val("list", "", 0, xs)
Pair(k, v) == Val("pair", k, 0, <<v>>)
Dict(pairs) == Val("dict", "", 0, pairs)

\* Tokens of a message body: the scalar values themselves, punctuation,
\* white space, text that is no JSON token, and a byte that is not UTF-8.
Tok(t) == Val(t, "", 0, <<>>)
LBrace == Tok("{")
RBrace == Tok("}")
LBrack == Tok("[")
RBrack == Tok("]")
Colon == Tok(":")
Comma == Tok(",")
Ws == Tok("ws")
Junk(x) == Val("junk", x, 0, <<>>)
BadByte == Tok("badbyte")

ScalarTypes == {"str", "int", "float", "bool", "null"}

\* dict.get(key): the value stored under key, None when the key is absent.
RECURSIVE DictGetFrom(_, _, _)
DictGetFrom(pairs, key, i) ==
    IF i > Len(pairs) THEN None
    ELSE IF pairs[i].s = key THEN pairs[i].items[1]
    ELSE DictGetFrom(pairs, key, i + 1)

DictGet(d, key) == DictGetFrom(d.items, key, 1)

DictHas(d, key) == \E i \in 1..Len(d.items) : d.items[i].s = key

\* d[key] = v: an existing key keeps its position, a new key is appended.
DictSet(d, key, v) ==
    IF DictHas(d, key)
    THEN Dict([i \in 1..Len(d.items) |->
                 IF d.items[i].s = key THEN Pair(key, v) ELSE d.items[i]])
    ELSE Dict(Append(d.items, Pair(key, v)))

(***************************************************************************)
(* json.loads                                                              *)
(***************************************************************************)
RECURSIVE SkipWs(_, _)
SkipWs(toks, i) ==
    IF i <= Len(toks) /\ toks[i].t = "ws" THEN SkipWs(toks, i + 1) ELSE i

ParseFail == [ok |-> FALSE, v |-> None, i |-> 0]
ParseOk(v, i) == [ok |-> TRUE, v |-> v, i |-> i]

RECURSIVE ParseValue(_, _)
RECURSIVE ParseArray(_, _, _)
RECURSIVE ParseObject(_, _, _)

\* Elements of an array after "[" or after ",": acc holds those read so far.
ParseArray(toks, i, acc) ==
    LET r == ParseValue(toks, i)
        j == SkipWs(toks, r.i)
    IN  IF ~r.ok \/ j > Len(toks) THEN ParseFail
        ELSE IF toks[j].t = "]" THEN ParseOk(List(Append(acc, r.v)), j + 1)
        ELSE IF toks[j].t = "," THEN ParseArray(toks, j + 1, Append(acc, r.v))
        ELSE ParseFail

\* Members of an object after "{" or after ",": acc is the dict so far; a
\* repeated key overwrites the earlier value.
ParseObject(toks, i, acc) ==
    LET k == SkipWs(toks, i)
        c == SkipWs(toks, k + 1)
    IN  IF c > Len(toks) \/ toks[k].t # "str" \/ toks[c].t # ":" THEN ParseFail
        ELSE LET r == ParseValue(toks, c + 1)
                 j == SkipWs(toks, r.i)
                 d == DictSet(acc, toks[k].s, r.v)
             IN  IF ~r.ok \/ j > Len(toks) THEN ParseFail
                 ELSE IF toks[j].t = "}" THEN ParseOk(d, j + 1)
                 ELSE IF toks[j].t = "," THEN ParseObject(toks, j + 1, d)
                 ELSE ParseFail

ParseValue(toks, i) ==
    LET j == SkipWs(toks, i)
    IN  IF j > Len(toks) THEN ParseFail
        ELSE IF toks[j].t \in ScalarTypes THEN ParseOk(toks[j], j + 1)
        ELSE IF toks[j].t = "[" THEN
            LET e == SkipWs(toks, j + 1)
            IN  IF e <= Len(toks) /\ toks[e].t = "]" THEN ParseOk(List(<<>>), e + 1)
                ELSE ParseArray(toks, j + 1, <<>>)
        ELSE IF toks[j].t = "{" THEN
            LET e == SkipWs(toks, j + 1)
            IN  IF e <= Len(toks) /\ toks[e].t = "}" THEN ParseOk(Dict(<<>>), e + 1)
                ELSE ParseObject(toks, j + 1, Dict(<<>>))
        ELSE ParseFail

\* json.loads(body) of a bytes body: the bytes are decoded as UTF-8 first
\* (UnicodeDecodeError, which is not a JSONDecodeError), then parsed.
json_loads(body) ==
    IF \E i \in 1..Len(body) : body[i].t = "badbyte"
    THEN [exc |-> "UnicodeDecodeError", v |-> None]
    ELSE LET r == ParseValue(body, 1)
         IN  IF r.ok /\ SkipWs(body, r.i) > Len(body)
             THEN [exc |-> "none", v |-> r.v]
             ELSE [exc |-> "JSONDecodeError", v |-> None]

(***************************************************************************)
(* json.dumps: default separators ", " and ": ".                           *)
(***************************************************************************)
RECURSIVE json_dumps(_)
RECURSIVE DumpItems(_, _)

DumpItems(items, i) ==
    IF i > Len(items) THEN <<>>
    ELSE (IF i > 1 THEN <<Comma, Ws>> ELSE <<>>)
         \o (IF items[i].t = "pair"
             THEN <<Str(items[i].s), Colon, Ws>> \o json_dumps(items[i].items[1])
             ELSE json_dumps(items[i]))
         \o DumpItems(items, i + 1)

json_dumps(v) ==
    IF v.t = "list" THEN <<LBrack>> \o DumpItems(v.items, 1) \o <<RBrack>>
    ELSE IF v.t = "dict" THEN <<LBrace>> \o DumpItems(v.items, 1) \o <<RBrace>>
    ELSE <<v>>

(***************************************************************************)
(* Python semantics the handler relies on.                                 *)
(***************************************************************************)
\* bool(v), as used by "not order_id" and "not item".
Truthy(v) ==
    IF v.t = "str" THEN v.s # ""
    ELSE IF v.t \in {"int", "bool"} THEN v.n # 0
    ELSE IF v.t = "float" THEN v.s \notin {"0.0", "-0.0"}
    ELSE IF v.t = "null" THEN FALSE
    ELSE Len(v.items) > 0

\* isinstance(v, int): bool is a subclass of int.
IsInstanceInt(v) == v.t \in {"int", "bool"}

\* hash(v) is defined: lists and dicts are unhashable.
Hashable(v) == v.t \notin {"list", "dict"}

\* What set membership and dict lookup compare: True == 1 and False == 0.
\* (float literals of the model are not integral, so they equal no int)
HashKey(v) == IF v.t = "bool" THEN Num(v.n) ELSE v

RECURSIVE Join(_, _)
Join(strs, sep) ==
    IF strs = <<>> THEN ""
    ELSE IF Len(strs) = 1 THEN strs[1]
    ELSE strs[1] \o sep \o Join(Tail(strs), sep)

\* repr(v) and str(v), as the f-strings of the handler format a value.
RECURSIVE PyRepr(_)
RECURSIVE ReprItems(_, _)
ReprItems(items, i) ==
    IF i > Len(items) THEN ""
    ELSE (IF i > 1 THEN ", " ELSE "")
         \o (IF items[i].t = "pair"
             THEN "'" \o items[i].s \o "': " \o PyRepr(items[i].items[1])
             ELSE PyRepr(items[i]))
         \o ReprItems(items, i + 1)

PyRepr(v) ==
    IF v.t = "str" THEN "'" \o v.s \o "'"
    ELSE IF v.t = "int" THEN ToString(v.n)
    ELSE IF v.t = "float" THEN v.s
    ELSE IF v.t = "bool" THEN (IF v.n = 1 THEN "True" ELSE "False")
    ELSE IF v.t = "null" THEN "None"
    ELSE IF v.t = "list" THEN "[" \o ReprItems(v.items, 1) \o "]"
    ELSE "{" \o ReprItems(v.items, 1) \o "}"

PyStr(v) == IF v.t = "str" THEN v.s ELSE PyRepr(v)

(***************************************************************************)
(* The channel calls a handler makes.                                      *)
(***************************************************************************)
EXCHANGE == "order_events"

\* ch.basic_publish(exchange, routing_key, body); ok = the call returned.
BasicPublish(exchange, routing_key, body, ok) ==
    [op |-> "basic_publish", exchange |-> exchange, routing_key |-> routing_key,
     body |-> body, ok |-> ok]

\* ch.basic_ack(delivery_tag=method.delivery_tag)
BasicAck ==
    [op |-> "basic_ack", exchange |-> "", routing_key |-> "", body |-> <<>>,
     ok |-> TRUE]

\* Mutant: the delivery is acknowledged before its publish.
PublishThenAck_AckFirst(exchange, routing_key, body, pub_ok) ==
    <<BasicAck, BasicPublish(exchange, routing_key, body, pub_ok)>>

\* A publish followed by the acknowledgment; when the publish raises, the
\* statements after it, the acknowledgment included, do not run.
PublishThenAck(exchange, routing_key, body, pub_ok) ==
    IF pub_ok
    THEN <<BasicPublish(exchange, routing_key, body, TRUE), BasicAck>>
    ELSE <<BasicPublish(exchange, routing_key, body, FALSE)>>

\* What one run of the handler did: the path taken, the channel calls in
\* order, the exception that left the handler ("none" when it returned), the
\* ledger and the idempotency set afterwards, and the reason text built.
Outcome(path, calls, exc, inv, proc, reason) ==
    [path |-> path, calls |-> calls, exc |-> exc, inventory |-> inv,
     processed |-> proc, reason |-> reason]

PublishExc(pub_ok) == IF pub_ok THEN "none" ELSE "AMQPError"

\* An exception raised before any channel call.
Raised(exc, inv, proc) == Outcome("raised", <<>>, exc, inv, proc, "")

(***************************************************************************)
(* on_order_placed(ch, method, properties, body)                           *)
(***************************************************************************)
\* Mutant: only the first failed check is reported.
MissingFields_FirstOnly(order_id, item, qty) ==
    IF ~Truthy(order_id) THEN <<"order_id">>
    ELSE IF ~Truthy(item) THEN <<"item">>
    ELSE IF qty.t = "null" THEN <<"qty">>
    ELSE <<>>

\* The list "missing": one name per failed check, in the order of the checks.
MissingFields(order_id, item, qty) ==
    (IF ~Truthy(order_id) THEN <<"order_id">> ELSE <<>>)
    \o (IF ~Truthy(item) THEN <<"item">> ELSE <<>>)
    \o (IF qty.t = "null" THEN <<"qty">> ELSE <<>>)

MissingReason(missing) == "Missing required field(s): " \o Join(missing, ", ")

\* not isinstance(qty, int) or qty <= 0
InvalidQty(qty) == ~IsInstanceInt(qty) \/ qty.n <= 0

InvalidQtyReason(qty) ==
    "Invalid qty: " \o PyStr(qty) \o " (must be a positive integer)"

\* dlq_msg = {**data, "error": reason}
DlqMsg(data, reason) == DictSet(data, "error", Str(reason))

\* Mutant: a decode failure publishes an envelope with the reason instead
\* of the bytes received.
DecodeErrorDlqBody_Envelope(body) ==
    json_dumps(Dict(<<Pair("error", Str("Could not decode message body"))>>))

\* The body published to dlq_queue when json.loads raised JSONDecodeError.
DecodeErrorDlqBody(body) == body

\* Mutant: the idempotency check is missing.
IsDuplicate_Never(order_id, proc) == FALSE

\* order_id in processed_orders
IsDuplicate(order_id, proc) == HashKey(order_id) \in proc

\* Mutant: a duplicate publishes an outcome again before it is acknowledged.
DuplicateCalls_Republish ==
    <<BasicPublish(EXCHANGE, "inventory.reserved", <<>>, TRUE), BasicAck>>

\* The channel calls of the duplicate path.
DuplicateCalls == <<BasicAck>>

\* item not in inventory
ItemNotInInventory(item, inv) == ~(item.t = "str" /\ item.s \in DOMAIN inv)

ItemNotFoundReason(item) == "Item '" \o PyStr(item) \o "' not found in inventory"

\* Mutant: the stock check only asks whether anything is left.
InsufficientStock_AnyLeft(item, qty, inv) == inv[item.s] <= 0

\* inventory[item] < qty
InsufficientStock(item, qty, inv) == inv[item.s] < qty.n

InsufficientStockReason(item, qty, inv) ==
    "Insufficient stock for '" \o PyStr(item) \o "': requested " \o PyStr(qty)
    \o ", available " \o ToString(inv[item.s])

FailedEvent(order_id, item, qty, reason) ==
    Dict(<<Pair("order_id", order_id), Pair("item", item), Pair("qty", qty),
           Pair("status", Str("FAILED")), Pair("reason", Str(reason))>>)

ReservedEvent(order_id, item, qty) ==
    Dict(<<Pair("order_id", order_id), Pair("item", item), Pair("qty", qty),
           Pair("status", Str("RESERVED"))>>)

\* Mutant: the reservation adds the quantity to the ledger.
ReserveStock_Restock(item, qty, inv) == [inv EXCEPT ![item.s] = @ + qty.n]

\* inventory[item] -= qty
ReserveStock(item, qty, inv) == [inv EXCEPT ![item.s] = @ - qty.n]

\* Mutant: the reserved order id is not recorded.
MarkProcessed_Skip(order_id, proc) == proc

\* processed_orders.add(order_id)
MarkProcessed(order_id, proc) == proc \cup {HashKey(order_id)}

\* Mutant: a dead-lettered message with an order id is marked processed.
ValidationFailure_MarksProcessed(data, order_id, reason, inv, proc, pub_ok) ==
    Outcome("dlq_validation",
            PublishThenAck("", "dlq_queue", json_dumps(DlqMsg(data, reason)), pub_ok),
            PublishExc(pub_ok), inv,
            IF Hashable(order_id) /\ Truthy(order_id)
            THEN MarkProcessed(order_id, proc) ELSE proc,
            reason)

\* Validation failure: publish {**data, "error": reason} to dlq_queue, ack.
ValidationFailure(data, order_id, reason, inv, proc, pub_ok) ==
    Outcome("dlq_validation",
            PublishThenAck("", "dlq_queue", json_dumps(DlqMsg(data, reason)), pub_ok),
            PublishExc(pub_ok), inv, proc, reason)

\* Mutant: a rejected order id is recorded as processed.
Rejection_MarksProcessed(order_id, item, qty, reason, inv, proc, pub_ok) ==
    Outcome("failed",
            PublishThenAck(EXCHANGE, "inventory.failed",
                           json_dumps(FailedEvent(order_id, item, qty, reason)), pub_ok),
            PublishExc(pub_ok), inv, MarkProcessed(order_id, proc), reason)

\* Business rejection: publish a FAILED event with key inventory.failed, ack.
Rejection(order_id, item, qty, reason, inv, proc, pub_ok) ==
    Outcome("failed",
            PublishThenAck(EXCHANGE, "inventory.failed",
                           json_dumps(FailedEvent(order_id, item, qty, reason)), pub_ok),
            PublishExc(pub_ok), inv, proc, reason)

\* Mutant: a reservation whose publish raises is undone.
Reservation_RollsBack(order_id, item, qty, inv, proc, pub_ok) ==
    Outcome("reserved",
            PublishThenAck(EXCHANGE, "inventory.reserved",
                           json_dumps(ReservedEvent(order_id, item, qty)), pub_ok),
            PublishExc(pub_ok),
            IF pub_ok THEN ReserveStock(item, qty, inv) ELSE inv,
            IF pub_ok THEN MarkProcessed(order_id, proc) ELSE proc, "")

\* Reservation: decrement, mark processed, publish RESERVED, ack.
Reservation(order_id, item, qty, inv, proc, pub_ok) ==
    Outcome("reserved",
            PublishThenAck(EXCHANGE, "inventory.reserved",
                           json_dumps(ReservedEvent(order_id, item, qty)), pub_ok),
            PublishExc(pub_ok), ReserveStock(item, qty, inv),
            MarkProcessed(order_id, proc), "")

\* The part of the handler after the validation: idempotency check, stock
\* check, reservation.
Decide(order_id, item, qty, inv, proc, pub_ok) ==
    IF ~Hashable(order_id) THEN Raised("TypeError", inv, proc)
    ELSE IF IsDuplicate(order_id, proc)
    THEN Outcome("duplicate", DuplicateCalls, "none", inv, proc, "")
    ELSE IF ~Hashable(item) THEN Raised("TypeError", inv, proc)
    ELSE IF ItemNotInInventory(item, inv)
    THEN Rejection(order_id, item, qty, ItemNotFoundReason(item), inv, proc, pub_ok)
    ELSE IF InsufficientStock(item, qty, inv)
    THEN Rejection(order_id, item, qty, InsufficientStockReason(item, qty, inv),
                   inv, proc, pub_ok)
    ELSE Reservation(order_id, item, qty, inv, proc, pub_ok)

\* The part of the handler after json.loads returned data.
Validate(data, inv, proc, pub_ok) ==
    IF data.t # "dict" THEN Raised("AttributeError", inv, proc)
    ELSE LET order_id == DictGet(data, "order_id")
             item == DictGet(data, "item")
             qty == DictGet(data, "qty")
             missing == MissingFields(order_id, item, qty)
         IN  IF missing # <<>>
             THEN ValidationFailure(data, order_id, MissingReason(missing),
                                    inv, proc, pub_ok)
             ELSE IF InvalidQty(qty)
             THEN ValidationFailure(data, order_id, InvalidQtyReason(qty),
                                    inv, proc, pub_ok)
             ELSE Decide(order_id, item, qty, inv, proc, pub_ok)

\* The whole handler, run on body with ledger inv and idempotency set proc;
\* pub_ok tells whether the basic_publish it makes returns or raises.
on_order_placed(body, inv, proc, pub_ok) ==
    LET dec == json_loads(body)
    IN  IF dec.exc = "JSONDecodeError"
        THEN Outcome("dlq_decode",
                     PublishThenAck("", "dlq_queue", DecodeErrorDlqBody(body), pub_ok),
                     PublishExc(pub_ok), inv, proc, "")
        ELSE IF dec.exc # "none" THEN Raised(dec.exc, inv, proc)
        ELSE Validate(dec.v, inv, proc, pub_ok)

(***************************************************************************)
(* Messages producers put on inventory_queue.                              *)
(***************************************************************************)
\* publish_order_placed(order_id, item, qty): the event of the tests and of
\* the front door, encoded with json.dumps.
OrderPlacedBody(order_id, item, qty) ==
    json_dumps(Dict(<<Pair("order_id", order_id), Pair("item", item),
                      Pair("qty", qty), Pair("student_id", Str("test-student"))>>))

\* publish_malformed_event(): an event without qty.
MalformedBody ==
    json_dumps(Dict(<<Pair("order_id", Str("bad-001")), Pair("item", Str("burger")),
                      Pair("student_id", Str("bad-student"))>>))

\* An object with the given members, written without white space.
RECURSIVE Members(_, _)
Members(pairs, i) ==
    IF i > Len(pairs) THEN <<>>
    ELSE (IF i > 1 THEN <<Comma>> ELSE <<>>)
         \o <<Str(pairs[i].s), Colon>> \o json_dumps(pairs[i].items[1])
         \o Members(pairs, i + 1)

Compact(pairs) == <<LBrace>> \o Members(pairs, 1) \o <<RBrace>>

NotJson == <<LBrace, Junk("not json")>>
JsonArray == <<LBrack, Num(1), Comma, Ws, Num(2), RBrack>>
JsonString == <<Str("hello")>>
NotUtf8 == <<LBrace, BadByte, RBrace>>

\* The well-formed events of the model: o1 and o2 ask for 20 sushi each (30
\* in stock, so whichever comes second is short), o1 also asks for an item
\* that is not stocked.
ValidBodies ==
    { OrderPlacedBody(Str("o1"), Str("sushi"), Num(20)),
      OrderPlacedBody(Str("o2"), Str("sushi"), Num(20)),
      OrderPlacedBody(Str("o1"), Str("taco"), Num(1)) }

\* What the producers of the consuming-loop specification publish.
Bodies ==
    ValidBodies \cup { MalformedBody, NotJson, JsonArray }

\* Objects with each combination of order_id, item and qty missing or empty.
MissingBodies ==
    { Compact(<<>>),
      Compact(<<Pair("order_id", Str("o1"))>>),
      Compact(<<Pair("item", Str("sushi"))>>),
      Compact(<<Pair("qty", Num(2))>>),
      Compact(<<Pair("order_id", Str("o1")), Pair("item", Str("sushi"))>>),
      Compact(<<Pair("order_id", Str("o1")), Pair("qty", Num(2))>>),
      Compact(<<Pair("item", Str("sushi")), Pair("qty", Num(2))>>),
      Compact(<<Pair("order_id", Str("")), Pair("item", Str("")), Pair("qty", None)>>),
      Compact(<<Pair("qty", Num(0)), Pair("item", Str("sushi")),
                Pair("order_id", None)>>),
      Compact(<<Pair("order_id", Str("o1")), Pair("error", Str("old")),
                Pair("note", Str("n"))>>) }

\* Objects with every required field present and a qty that is no positive
\* integer, for a fresh order id and for o1.
InvalidQtyBodies ==
    { Compact(<<Pair("order_id", Str(o)), Pair("item", Str("sushi")), Pair("qty", q)>>) :
        o \in {"o1", "o3"},
        q \in {Num(0), Num(-1), Flt("1.5"), Str("2"), Bool(TRUE), Bool(FALSE),
               List(<<Num(2)>>)} }

\* Objects whose order_id or item is a JSON array, and bodies that are valid
\* JSON but no object, or no JSON, or no UTF-8.
OtherBodies ==
    { Compact(<<Pair("order_id", List(<<Str("o1")>>)), Pair("item", Str("sushi")),
                Pair("qty", Num(1))>>),
      Compact(<<Pair("order_id", Str("o3")), Pair("item", List(<<Str("sushi")>>)),
                Pair("qty", Num(1))>>),
      Compact(<<Pair("order_id", Str("o1")), Pair("item", Str("sushi")),
                Pair("qty", Num(20)), Pair("student_id", Str("test-student"))>>),
      JsonString, NotUtf8, <<>> }

AllBodies ==
    Bodies \cup MissingBodies \cup InvalidQtyBodies \cup OtherBodies

(***************************************************************************)
(* State after construction: the module-level inventory and                *)
(* processed_orders, main() about to call get_connection().                *)
(***************************************************************************)
InitialInventory ==
    [i \in {"burger", "pizza", "sushi", "salad"} |->
        CASE i = "burger" -> 100 [] i = "pizza" -> 50
          [] i = "sushi" -> 30 [] OTHER -> 200]

\* The order service before its first request, its status thread about to
\* call get_connection().
InitOrderService ==
    /\ orders_lock = "free"
    /\ reqs = <<>>
    /\ status_pc = "connect"
    /\ status_msg = None
    /\ status_consumed = 0
    /\ status_log = <<>>
    /\ order_exit_code = -1

\* stock = {"burrito": 5000, "pizza": 5000, "salad": 5000, "taco": 5000}
InitialStock ==
    [i \in {"burrito", "pizza", "salad", "taco"} |-> 5000]

\* The Kafka consumer started on an empty order topic.
InitKafka ==
    /\ stock = InitialStock
    /\ order_topic = <<>>
    /\ committed = 0
    /\ inventory_topic = <<>>
    /\ dlq_topic = <<>>
    /\ kafka_log = <<>>
    /\ kafka_crashes = 0

\* store = InventoryStore(): InventoryStore.__init__
InitialStore == [i \in {"burger", "pizza", "sushi"} |-> 50]

\* The REST services before the first order, with the given configuration
\* of the inventory service.
InitSyncRest(fail_mode, delay_ms) ==
    /\ store_inventory = InitialStore
    /\ INVENTORY_FAIL_MODE = fail_mode
    /\ INVENTORY_DELAY_MS = delay_ms
    /\ rest_orders = <<>>
    /\ reserve_calls = <<>>
    /\ notifications = <<>>

InitConsumer ==
    /\ InitOrderService
    /\ orders = Dict(<<>>)
    /\ InitKafka
    /\ InitSyncRest(FALSE, 0)
    /\ inventory = InitialInventory
    /\ processed_orders = {}
    /\ unacked = <<>>
    /\ dlq_queue = <<>>
    /\ exchange_out = <<>>
    /\ pc = "connect"
    /\ deliveries = <<>>
    /\ conn = "none"
    /\ ch = <<>>
    /\ attempts = <<>>
    /\ exit_code = -1

\* The consumer starts on an empty queue; producers publish while it runs.
Init ==
    /\ InitConsumer
    /\ inventory_queue = <<>>
    /\ published = 0

(***************************************************************************)
(* Producers.                                                              *)
(***************************************************************************)
\* basic_publish(exchange=EXCHANGE, routing_key="order.placed", body): the
\* binding of inventory_queue routes the message to the tail of the queue.
PublishOrderPlaced(body) ==
    /\ published < MaxPublished
    /\ inventory_queue' = Append(inventory_queue, body)
    /\ published' = published + 1
    /\ UNCHANGED <<inventory, processed_orders, unacked, dlq_queue, exchange_out,
                   pc, deliveries, mainVars>>
    /\ UNCHANGED outsideRabbit

(***************************************************************************)
(* main() and get_connection()                                             *)
(***************************************************************************)
Retries == 15

\* get_connection(retries): the loop over attempt = 1..retries, started at
\* the given attempt.  fails is the number of leading attempts at which
\* pika.BlockingConnection(params) raises AMQPConnectionError.  The first
\* attempt that does not raise returns the connection; when the loop runs
\* out, sys.exit(1) ends the process (SystemExit is no Exception, so main()
\* does not catch it).
RECURSIVE get_connection(_, _, _)
get_connection(attempt, retries, fails) ==
    IF attempt > retries THEN [connected |-> FALSE, attempts |-> retries]
    ELSE IF attempt > fails THEN [connected |-> TRUE, attempts |-> attempt]
    ELSE get_connection(attempt + 1, retries, fails)

\* A declaration or subscription made on a channel.
ChannelCall(op, exchange, queue, routing_key) ==
    [op |-> op, exchange |-> exchange, queue |-> queue, routing_key |-> routing_key]

\* setup_channel(channel): the exchange, inventory_queue and its binding,
\* dlq_queue.
setup_channel ==
    <<ChannelCall("exchange_declare", EXCHANGE, "", ""),
      ChannelCall("queue_declare", "", "inventory_queue", ""),
      ChannelCall("queue_bind", EXCHANGE, "inventory_queue", "order.placed"),
      ChannelCall("queue_declare", "", "dlq_queue", "")>>

BasicQos == ChannelCall("basic_qos", "", "", "")
BasicConsume == ChannelCall("basic_consume", "", "inventory_queue", "")

\* Mutant: the topology is declared on the first connection only.
ChannelAfterConnect_SetupOnce(prev_conn) ==
    (IF prev_conn = "none" THEN setup_channel ELSE <<>>)
    \o <<BasicQos, BasicConsume>>

\* main(): ch = conn.channel(); setup_channel(ch); ch.basic_qos(...);
\* ch.basic_consume(...): the calls made on the channel of a new connection,
\* whatever connection main() held before (prev_conn).
ChannelAfterConnect(prev_conn) == setup_channel \o <<BasicQos, BasicConsume>>

\* main() after conn = get_connection(): with a connection it sets the
\* channel up and consumes; sys.exit(1) in get_connection() raises
\* SystemExit, which no except clause of main() catches: the process ends
\* with code 1, whether main() held a connection before or not.
AfterGetConnection(connected, prev_conn, prev_ch) ==
    IF connected
    THEN [pc |-> "consuming", conn |-> "open",
          ch |-> ChannelAfterConnect(prev_conn), exit_code |-> -1]
    ELSE [pc |-> "exited", conn |-> prev_conn, ch |-> prev_ch, exit_code |-> 1]

\* main(): conn = get_connection(); setup_channel; basic_qos; basic_consume,
\* with the whole call of get_connection() as one step.
GetConnection ==
    /\ pc = "connect"
    /\ \E fails \in 0..Retries :
         LET m == AfterGetConnection(get_connection(1, Retries, fails).connected,
                                     conn, ch)
         IN  /\ pc' = m.pc
             /\ conn' = m.conn
             /\ ch' = m.ch
             /\ exit_code' = m.exit_code
    /\ UNCHANGED <<inventory, processed_orders, inventory_queue, unacked,
                   dlq_queue, exchange_out, published, deliveries, attempts>>
    /\ UNCHANGED outsideRabbit

\* Mutant: the loop makes one attempt more than retries.
AttemptRange_OneMore(retries) == 1..(retries + 1)

\* range(1, retries + 1)
AttemptRange(retries) == 1..retries

\* One iteration of the loop of get_connection(retries): log is what the
\* attempts of this call did so far, raises tells whether
\* pika.BlockingConnection(params) raises AMQPConnectionError this time.
\* An attempt that does not raise returns the connection; one that raises
\* sleeps, and after the last one of the range the call ends in sys.exit(1).
get_connection_attempt(log, retries, raises) ==
    LET attempt == Len(log) + 1
    IN  IF attempt \notin AttemptRange(retries)
        THEN [log |-> log, done |-> TRUE, connected |-> FALSE]
        ELSE IF ~raises
        THEN [log |-> Append(log, "connected"), done |-> TRUE, connected |-> TRUE]
        ELSE [log |-> Append(log, "AMQPConnectionError"),
              done |-> (attempt + 1) \notin AttemptRange(retries),
              connected |-> FALSE]

\* main(): conn = get_connection(), one attempt at a time; when the call is
\* over main() goes on as in AfterGetConnection.
ConnectAttempt ==
    /\ pc = "connect"
    /\ \E raises \in BOOLEAN :
         LET r == get_connection_attempt(attempts, Retries, raises)
             m == AfterGetConnection(r.connected, conn, ch)
         IN  /\ attempts' = r.log
             /\ pc' = IF r.done THEN m.pc ELSE pc
             /\ conn' = IF r.done THEN m.conn ELSE conn
             /\ ch' = IF r.done THEN m.ch ELSE ch
             /\ exit_code' = IF r.done THEN m.exit_code ELSE exit_code
    /\ UNCHANGED <<inventory, processed_orders, inventory_queue, unacked,
                   dlq_queue, exchange_out, published, deliveries>>
    /\ UNCHANGED outsideRabbit

\* start_consuming() raises AMQPConnectionError while no handler runs:
\* main() sleeps and starts over with a new call of get_connection().
\* Nothing was delivered, nothing is unacked.
ConnectionLost ==
    /\ pc = "consuming"
    /\ pc' = "connect"
    /\ conn' = "lost"
    /\ attempts' = <<>>
    /\ UNCHANGED <<inventory, processed_orders, inventory_queue, unacked,
                   dlq_queue, exchange_out, published, deliveries, ch, exit_code>>
    /\ UNCHANGED outsideRabbit

\* The broker returns the messages that were delivered on a connection that
\* is gone, and never acknowledged, to the head of the queue.
BrokerRequeue ==
    /\ unacked # <<>>
    /\ inventory_queue' = unacked \o inventory_queue
    /\ unacked' = <<>>
    /\ UNCHANGED <<inventory, processed_orders, dlq_queue, exchange_out, pc,
                   published, deliveries, mainVars>>
    /\ UNCHANGED outsideRabbit

\* The bodies of the calls that stored a message: basic_publish calls that
\* returned, to the given exchange.
RECURSIVE Stored(_, _)
Stored(calls, toDlq) ==
    IF calls = <<>> THEN <<>>
    ELSE LET c == Head(calls)
             hit == /\ c.op = "basic_publish"
                    /\ c.ok
                    /\ (c.exchange = "") = toDlq
         IN  (IF hit THEN <<[routing_key |-> c.routing_key, body |-> c.body]>>
              ELSE <<>>)
             \o Stored(Tail(calls), toDlq)

Acked(calls) == \E i \in 1..Len(calls) : calls[i].op = "basic_ack"

\* One entry of the history: the delivery and what the handler did with it.
Delivery(body, r, inv, proc) ==
    [body |-> body, path |-> r.path, calls |-> r.calls, exc |-> r.exc,
     reason |-> r.reason, inv_before |-> inv, inv_after |-> r.inventory,
     proc_before |-> proc, proc_after |-> r.processed]

\* The broker delivers the head of inventory_queue (prefetch_count=1, one
\* message in flight) and on_order_placed runs on it.  When the handler
\* returns, it has acknowledged the message.  When it raises, the exception
\* leaves start_consuming(), main() catches it, sleeps and starts over with
\* a new connection; the message stays unacknowledged on the old one.
OnOrderPlaced ==
    /\ pc = "consuming"
    /\ inventory_queue # <<>>
    /\ Len(deliveries) < MaxDeliveries
    /\ \E pub_ok \in BOOLEAN :
         LET body == Head(inventory_queue)
             r == on_order_placed(body, inventory, processed_orders, pub_ok)
         IN  /\ inventory' = r.inventory
             /\ processed_orders' = r.processed
             /\ dlq_queue' = dlq_queue \o Stored(r.calls, TRUE)
             /\ exchange_out' = exchange_out \o Stored(r.calls, FALSE)
             /\ inventory_queue' = Tail(inventory_queue)
             /\ unacked' = IF Acked(r.calls) THEN unacked ELSE Append(unacked, body)
             /\ pc' = IF r.exc = "none" THEN pc ELSE "connect"
             /\ conn' = IF r.exc = "none" THEN conn ELSE "lost"
             /\ attempts' = IF r.exc = "none" THEN attempts ELSE <<>>
             /\ deliveries' = Append(deliveries,
                                     Delivery(body, r, inventory, processed_orders))
    /\ UNCHANGED <<published, ch, exit_code>>
    /\ UNCHANGED outsideRabbit

NextConsumer ==
    \/ GetConnection
    \/ ConnectionLost
    \/ BrokerRequeue
    \/ OnOrderPlaced

Next ==
    \/ \E body \in Bodies : PublishOrderPlaced(body)
    \/ NextConsumer

Spec == Init /\ [][Next]_vars

(***************************************************************************)
(* The consumer started on a backlog: the queue already holds one or two   *)
(* messages, the last of them any body of AllBodies, and nothing more is   *)
(* published.                                                              *)
(***************************************************************************)
Backlogs ==
    { <<b>> : b \in AllBodies }
    \cup { <<a, b>> : a \in ValidBodies, b \in AllBodies }

InitBacklog ==
    /\ InitConsumer
    /\ inventory_queue \in Backlogs
    /\ published = Len(inventory_queue)

SpecBacklog == InitBacklog /\ [][NextConsumer]_vars

(***************************************************************************)
(* The consumer started on three events of one order id, o1: requests that *)
(* are rejected, requests that are dead-lettered and requests the stock    *)
(* covers, in any order.                                                   *)
(***************************************************************************)
ResubmitBodies ==
    { OrderPlacedBody(Str("o1"), Str("taco"), Num(1)),
      OrderPlacedBody(Str("o1"), Str("sushi"), Num(20)),
      OrderPlacedBody(Str("o1"), Str("burger"), Num(1)),
      Compact(<<Pair("order_id", Str("o1")), Pair("item", Str("sushi")),
                Pair("qty", Num(0))>>),
      Compact(<<Pair("order_id", Str("o1")), Pair("item", Str("sushi"))>>) }

InitResubmit ==
    /\ InitConsumer
    /\ inventory_queue \in { <<a, b, c>> : a \in ResubmitBodies,
                                           b \in ResubmitBodies,
                                           c \in ResubmitBodies }
    /\ published = Len(inventory_queue)

SpecResubmit == InitResubmit /\ [][NextConsumer]_vars

(***************************************************************************)
(* main() with get_connection() one attempt at a time, started on a        *)
(* backlog of one or two messages.                                         *)
(***************************************************************************)
MainBacklogs ==
    { <<b>> : b \in Bodies } \cup { <<a, b>> : a \in ValidBodies, b \in Bodies }

InitMain ==
    /\ InitConsumer
    /\ inventory_queue \in MainBacklogs
    /\ published = Len(inventory_queue)

NextMain ==
    \/ ConnectAttempt
    \/ ConnectionLost
    \/ BrokerRequeue
    \/ OnOrderPlaced

SpecMain == InitMain /\ [][NextMain]_vars

\* Each attempt of get_connection() returns or raises: the loop goes on.
SpecMainFair == SpecMain /\ WF_vars(ConnectAttempt)

(***************************************************************************)
(* Vocabulary of the properties: what a delivery of the history did, read  *)
(* from the channel calls it made, and what a message body says, read from *)
(* the body.                                                               *)
(***************************************************************************)
Deliveries == 1..Len(deliveries)

\* The basic_publish calls of a delivery with the given routing key.
PublishCalls(d, routing_key) ==
    { i \in 1..Len(d.calls) :
        d.calls[i].op = "basic_publish" /\ d.calls[i].routing_key = routing_key }

OutcomeCalls(d) ==
    PublishCalls(d, "inventory.reserved") \cup PublishCalls(d, "inventory.failed")

DlqCalls(d) == PublishCalls(d, "dlq_queue")

AckCalls(d) == { i \in 1..Len(d.calls) : d.calls[i].op = "basic_ack" }

\* The decision of a delivery, as the outcome event it published tells it.
DecidedReserved(d) == PublishCalls(d, "inventory.reserved") # {}
DecidedFailed(d) == PublishCalls(d, "inventory.failed") # {}

LedgerMutations(d) == IF d.inv_after # d.inv_before THEN 1 ELSE 0

\* The delivery did nothing but acknowledge.
AckedWithoutSideEffects(d) ==
    /\ d.calls = <<BasicAck>>
    /\ d.exc = "none"
    /\ d.inv_after = d.inv_before
    /\ d.proc_after = d.proc_before

\* The decoded body when it is a JSON object, an empty object otherwise.
ObjectOf(body) ==
    LET dec == json_loads(body)
    IN  IF dec.exc = "none" /\ dec.v.t = "dict" THEN dec.v ELSE Dict(<<>>)

IsObject(body) ==
    LET dec == json_loads(body) IN dec.exc = "none" /\ dec.v.t = "dict"

FieldOf(body, key) == DictGet(ObjectOf(body), key)

\* An OrderEvent as the data model has it: an object with a non-empty string
\* order_id, a non-empty string item and an integer qty > 0.
WellFormedEvent(body) ==
    /\ IsObject(body)
    /\ FieldOf(body, "order_id").t = "str" /\ FieldOf(body, "order_id").s # ""
    /\ FieldOf(body, "item").t = "str" /\ FieldOf(body, "item").s # ""
    /\ FieldOf(body, "qty").t = "int" /\ FieldOf(body, "qty").n > 0

\* i and j are the first and the second delivery of an order id, and carry
\* the same body.
DeliveredTwice(i, j) ==
    /\ i < j
    /\ deliveries[i].body = deliveries[j].body
    /\ WellFormedEvent(deliveries[i].body)
    /\ \A k \in 1..(j - 1) :
         k # i => ~(/\ IsObject(deliveries[k].body)
                    /\ FieldOf(deliveries[k].body, "order_id")
                         = FieldOf(deliveries[i].body, "order_id"))

(***************************************************************************)
(* C1 (as stated): for any order id delivered twice with an identical      *)
(* valid payload, whatever the first decision, the two deliveries together *)
(* produce exactly one ledger mutation and exactly one outcome publish,    *)
(* and the second delivery is acknowledged without side effects.           *)
(***************************************************************************)
C1_AnyFirstDecisionOnce ==
    \A i \in Deliveries : \A j \in Deliveries :
        DeliveredTwice(i, j) =>
            /\ LedgerMutations(deliveries[i]) + LedgerMutations(deliveries[j]) = 1
            /\ Cardinality(OutcomeCalls(deliveries[i]))
                 + Cardinality(OutcomeCalls(deliveries[j])) = 1
            /\ AckedWithoutSideEffects(deliveries[j])

(***************************************************************************)
(* C1 (amended): for any order id delivered twice with an identical valid  *)
(* payload whose first delivery is decided RESERVED, the two deliveries    *)
(* together produce exactly one ledger mutation and exactly one outcome    *)
(* publish, and the second delivery is acknowledged without side effects.  *)
(* When the first delivery is decided FAILED, the order id is not          *)
(* recorded: the second delivery is decided again and publishes FAILED     *)
(* again, and neither delivery changes the ledger.                         *)
(***************************************************************************)
C1_ReservedOnce ==
    \A i \in Deliveries : \A j \in Deliveries :
        DeliveredTwice(i, j) =>
            /\ DecidedReserved(deliveries[i]) =>
                 /\ LedgerMutations(deliveries[i]) + LedgerMutations(deliveries[j]) = 1
                 /\ Cardinality(OutcomeCalls(deliveries[i]))
                      + Cardinality(OutcomeCalls(deliveries[j])) = 1
                 /\ AckedWithoutSideEffects(deliveries[j])
            /\ DecidedFailed(deliveries[i]) =>
                 /\ LedgerMutations(deliveries[i]) + LedgerMutations(deliveries[j]) = 0
                 /\ DecidedFailed(deliveries[j])
                 /\ Cardinality(OutcomeCalls(deliveries[i]))
                      + Cardinality(OutcomeCalls(deliveries[j])) = 2

\* C1 witness: an event was decided RESERVED and the same body was
\* delivered a second time.
C1_Witness ==
    \E i \in Deliveries : \E j \in Deliveries :
        DeliveredTwice(i, j) /\ DecidedReserved(deliveries[i])

(***************************************************************************)
(* C2: once an order id has been RESERVED, every later delivery of a       *)
(* well-formed event with that order id, whatever its item and qty, is     *)
(* acknowledged, leaves inventory and processed_orders unchanged and       *)
(* publishes neither an outcome event nor a dead-letter message.           *)
(***************************************************************************)
C2_ReservedThenSilent ==
    \A i \in Deliveries : \A j \in Deliveries :
        ( /\ i < j
          /\ DecidedReserved(deliveries[i])
          /\ WellFormedEvent(deliveries[j].body)
          /\ FieldOf(deliveries[j].body, "order_id")
               = FieldOf(deliveries[i].body, "order_id") )
        => AckedWithoutSideEffects(deliveries[j])

\* C2 witness: o1 was reserved and a later event of o1 for another item and
\* qty was delivered.
C2_Witness ==
    \E i \in Deliveries : \E j \in Deliveries :
        /\ i < j
        /\ DecidedReserved(deliveries[i])
        /\ WellFormedEvent(deliveries[j].body)
        /\ FieldOf(deliveries[j].body, "order_id")
             = FieldOf(deliveries[i].body, "order_id")
        /\ FieldOf(deliveries[j].body, "item") # FieldOf(deliveries[i].body, "item")
        /\ FieldOf(deliveries[j].body, "qty") # FieldOf(deliveries[i].body, "qty")

(***************************************************************************)
(* C3: after any sequence of deliveries every item's quantity is >= 0, and *)
(* a quantity is decremented only by a delivery whose decision is          *)
(* RESERVED, by exactly that delivery's qty, for that delivery's item; the *)
(* ledger changes nowhere else.                                            *)
(***************************************************************************)
C3_LedgerNonNegative ==
    /\ \A it \in DOMAIN inventory : inventory[it] >= 0
    /\ inventory = IF deliveries = <<>> THEN InitialInventory
                   ELSE deliveries[Len(deliveries)].inv_after
    /\ \A i \in Deliveries :
         LET d == deliveries[i]
         IN  /\ d.inv_before = IF i = 1 THEN InitialInventory
                               ELSE deliveries[i - 1].inv_after
             /\ \A it \in DOMAIN inventory :
                  d.inv_after[it] # d.inv_before[it] =>
                      /\ DecidedReserved(d)
                      /\ FieldOf(d.body, "item") = Str(it)
                      /\ d.inv_before[it] - d.inv_after[it]
                           = FieldOf(d.body, "qty").n

\* C3 witness: a reservation took 20 sushi and a later request for more than
\* what is left was rejected.
C3_Witness ==
    \E i \in Deliveries : \E j \in Deliveries :
        /\ i < j
        /\ DecidedReserved(deliveries[i])
        /\ deliveries[i].inv_before["sushi"] - deliveries[i].inv_after["sushi"] = 20
        /\ DecidedFailed(deliveries[j])
        /\ FieldOf(deliveries[j].body, "item") = Str("sushi")
        /\ FieldOf(deliveries[j].body, "qty").n > deliveries[j].inv_before["sushi"]

(***************************************************************************)
(* C4: a delivery that is routed to dlq_queue leaves inventory unchanged   *)
(* and does not add its order id to processed_orders.                      *)
(***************************************************************************)
C4_DlqLeavesState ==
    \A i \in Deliveries :
        DlqCalls(deliveries[i]) # {} =>
            /\ deliveries[i].inv_after = deliveries[i].inv_before
            /\ deliveries[i].proc_after = deliveries[i].proc_before

\* C4 witness: an object with an order id and without qty was routed to
\* dlq_queue, and so was a body that is no JSON.
C4_Witness ==
    /\ \E i \in Deliveries :
         /\ DlqCalls(deliveries[i]) # {}
         /\ Truthy(FieldOf(deliveries[i].body, "order_id"))
    /\ \E i \in Deliveries :
         /\ DlqCalls(deliveries[i]) # {}
         /\ ~IsObject(deliveries[i].body)

\* No basic_publish of the delivery raised.
NoPublishRaised(d) ==
    \A i \in 1..Len(d.calls) : d.calls[i].op = "basic_publish" => d.calls[i].ok

\* The delivery published one message, to dlq_queue, and then acknowledged.
DeadLettered(d) ==
    /\ Len(d.calls) = 2
    /\ DlqCalls(d) = {1}
    /\ d.calls[1].exchange = ""
    /\ AckCalls(d) = {2}
    /\ d.exc = "none"

(***************************************************************************)
(* C5 (as stated): every delivered body that fails decoding or validation  *)
(* (no JSON, JSON but no object, an object with missing or invalid fields) *)
(* is published to dlq_queue and acknowledged, so that the consumer goes   *)
(* on with the next message.  Deliveries whose publish raised are left     *)
(* out: what fails here is the handler itself.                             *)
(***************************************************************************)
C5_PoisonDeadLettered ==
    \A i \in Deliveries :
        (~WellFormedEvent(deliveries[i].body) /\ NoPublishRaised(deliveries[i]))
        => DeadLettered(deliveries[i])

\* A required field counts as missing when it is absent or empty: null, "",
\* 0, false, [] and {} for order_id and item, absent or null for qty.
EmptyValues ==
    {None, Str(""), Num(0), Bool(FALSE), Flt("0.0"), List(<<>>), Dict(<<>>)}

MissingNames(body) ==
    (IF FieldOf(body, "order_id") \in EmptyValues THEN <<"order_id">> ELSE <<>>)
    \o (IF FieldOf(body, "item") \in EmptyValues THEN <<"item">> ELSE <<>>)
    \o (IF FieldOf(body, "qty") = None THEN <<"qty">> ELSE <<>>)

\* The text of the combined message, written out for each combination.
MissingText(names) ==
    CASE names = <<"order_id">> -> "Missing required field(s): order_id"
      [] names = <<"item">> -> "Missing required field(s): item"
      [] names = <<"qty">> -> "Missing required field(s): qty"
      [] names = <<"order_id", "item">> -> "Missing required field(s): order_id, item"
      [] names = <<"order_id", "qty">> -> "Missing required field(s): order_id, qty"
      [] names = <<"item", "qty">> -> "Missing required field(s): item, qty"
      [] names = <<"order_id", "item", "qty">>
           -> "Missing required field(s): order_id, item, qty"
      [] OTHER -> ""

\* The delivery made exactly one publish, to dlq_queue, of a JSON object
\* whose error is the given text.
OneDeadLetterWithError(d, text) ==
    /\ Cardinality(PublishCalls(d, "dlq_queue")) = 1
    /\ OutcomeCalls(d) = {}
    /\ \A c \in DlqCalls(d) :
         /\ IsObject(d.calls[c].body)
         /\ FieldOf(d.calls[c].body, "error") = Str(text)

\* Every member of the delivered object, other than those named in except,
\* is a member of the published object with the same value.
CarriesOriginalFields(d, except) ==
    \A c \in DlqCalls(d) :
        \A k \in 1..Len(ObjectOf(d.body).items) :
            LET key == ObjectOf(d.body).items[k].s
            IN  key \notin except =>
                  /\ DictHas(ObjectOf(d.calls[c].body), key)
                  /\ FieldOf(d.calls[c].body, key) = FieldOf(d.body, key)

(***************************************************************************)
(* C6 (as stated): for a decoded JSON object with missing required fields  *)
(* the handler publishes exactly one dead-letter message, whose error is   *)
(* "Missing required field(s): " followed by the missing names,            *)
(* comma-joined in the order order_id, item, qty, and that message carries *)
(* every decoded original field.  Deliveries whose publish raised are left *)
(* out.                                                                    *)
(***************************************************************************)
C6_AllOriginalFieldsCarried ==
    \A i \in Deliveries :
        LET d == deliveries[i]
        IN  ( /\ IsObject(d.body)
              /\ MissingNames(d.body) # <<>>
              /\ NoPublishRaised(d) )
            => /\ OneDeadLetterWithError(d, MissingText(MissingNames(d.body)))
               /\ CarriesOriginalFields(d, {})

(***************************************************************************)
(* C6 (amended): as above, and the message carries every decoded original  *)
(* field except a field named "error", whose value the reason replaces.    *)
(***************************************************************************)
C6_MissingReportedTogether ==
    \A i \in Deliveries :
        LET d == deliveries[i]
        IN  (IsObject(d.body) /\ MissingNames(d.body) # <<>>) =>
              /\ OneDeadLetterWithError(d, MissingText(MissingNames(d.body)))
              /\ CarriesOriginalFields(d, {"error"})
              /\ \A c \in DlqCalls(d) :
                   Len(ObjectOf(d.calls[c].body).items)
                     = Len(ObjectOf(d.body).items)
                       + (IF DictHas(ObjectOf(d.body), "error") THEN 0 ELSE 1)

\* C6 witness: an object with an order id and neither item nor qty was
\* delivered and "item, qty" was reported in one dead-letter message that
\* carries the order id.
C6_Witness ==
    \E i \in Deliveries :
        LET d == deliveries[i]
        IN  /\ IsObject(d.body)
            /\ MissingNames(d.body) = <<"item", "qty">>
            /\ DeadLettered(d)
            /\ FieldOf(d.calls[1].body, "error")
                 = Str("Missing required field(s): item, qty")
            /\ FieldOf(d.calls[1].body, "order_id") = Str("o1")

(***************************************************************************)
(* C7 (as stated): an event with all required fields present whose qty is  *)
(* not a positive integer is dead-lettered (with reason "Invalid qty: <qty> *)
(* (must be a positive integer)") and acknowledged, also when its order id *)
(* is already in processed_orders; it is neither deduplicated nor decided. *)
(***************************************************************************)
C7_InvalidQtyDeadLettered ==
    \A i \in Deliveries :
        LET d == deliveries[i]
            qty == FieldOf(d.body, "qty")
        IN  ( /\ IsObject(d.body)
              /\ MissingNames(d.body) = <<>>
              /\ ~(qty.t = "int" /\ qty.n > 0)
              /\ NoPublishRaised(d) )
            => /\ DeadLettered(d)
               /\ d.inv_after = d.inv_before
               /\ qty.t = "int" =>
                    FieldOf(d.calls[1].body, "error")
                      = Str("Invalid qty: " \o ToString(qty.n)
                            \o " (must be a positive integer)")

(***************************************************************************)
(* C8 (as stated): every message published to dlq_queue carries an error   *)
(* reason, after a decode failure as after a validation failure.           *)
(***************************************************************************)
C8_EveryDeadLetterHasError ==
    \A k \in 1..Len(dlq_queue) :
        /\ IsObject(dlq_queue[k].body)
        /\ FieldOf(dlq_queue[k].body, "error").t = "str"
        /\ FieldOf(dlq_queue[k].body, "error").s # ""

(***************************************************************************)
(* C9: when decoding of the body fails, what the handler publishes to      *)
(* dlq_queue is the body it received, unchanged; a JSONDecodeError makes   *)
(* exactly one such publish and the message stored in dlq_queue is the     *)
(* body.                                                                   *)
(***************************************************************************)
C9_RawBodyPreserved ==
    \A i \in Deliveries :
        LET d == deliveries[i]
        IN  json_loads(d.body).exc # "none" =>
              /\ \A c \in 1..Len(d.calls) :
                   d.calls[c].op = "basic_publish" =>
                     /\ d.calls[c].exchange = ""
                     /\ d.calls[c].routing_key = "dlq_queue"
                     /\ d.calls[c].body = d.body
              /\ json_loads(d.body).exc = "JSONDecodeError" =>
                   /\ Cardinality(DlqCalls(d)) = 1
                   /\ NoPublishRaised(d) =>
                        \E k \in 1..Len(dlq_queue) : dlq_queue[k].body = d.body

\* C9 witness: "{not json" was delivered and is in dlq_queue as received.
C9_Witness ==
    /\ \E i \in Deliveries :
         deliveries[i].body = NotJson /\ DeadLettered(deliveries[i])
    /\ \E k \in 1..Len(dlq_queue) : dlq_queue[k].body = NotJson

(***************************************************************************)
(* C10: the acknowledgment of a delivery never precedes its publish: on    *)
(* the RESERVED, FAILED and dead-letter paths basic_ack is called only     *)
(* after the basic_publish to the exchange or to dlq_queue has returned,   *)
(* and nothing is published after the acknowledgment.                      *)
(***************************************************************************)
C10_AckAfterPublish ==
    \A i \in Deliveries :
        LET d == deliveries[i]
        IN  /\ d.path # "duplicate" =>
                 \A a \in AckCalls(d) :
                     \E p \in 1..(a - 1) :
                         d.calls[p].op = "basic_publish" /\ d.calls[p].ok
            /\ \A a \in AckCalls(d) :
                 \A p \in (a + 1)..Len(d.calls) : d.calls[p].op # "basic_publish"

\* C10 witness: a reservation and a dead-lettered message were each
\* published and then acknowledged.
C10_Witness ==
    /\ \E i \in Deliveries :
         DecidedReserved(deliveries[i]) /\ AckCalls(deliveries[i]) = {2}
    /\ \E i \in Deliveries : DeadLettered(deliveries[i])

(***************************************************************************)
(* C11 (as stated): every delivery that reaches a RESERVED or FAILED       *)
(* decision results in exactly one acknowledgment of that delivery and     *)
(* exactly one outcome publish, also when the publish call fails.          *)
(***************************************************************************)
C11_DecisionAckedOnce ==
    \A i \in Deliveries :
        LET d == deliveries[i]
        IN  (DecidedReserved(d) \/ DecidedFailed(d)) =>
              /\ Cardinality(AckCalls(d)) = 1
              /\ Cardinality(OutcomeCalls(d)) = 1

(***************************************************************************)
(* C12 (as stated): dead-lettering is best-effort: a delivery that the     *)
(* handler routes to dlq_queue is acknowledged, and so removed from        *)
(* inventory_queue, whether or not the publish to dlq_queue succeeds; the  *)
(* consumer goes on consuming.                                             *)
(***************************************************************************)
C12_DeadLetterBestEffort ==
    \A i \in Deliveries :
        LET d == deliveries[i]
        IN  DlqCalls(d) # {} =>
              /\ Cardinality(AckCalls(d)) = 1
              /\ d.exc = "none"

\* The delivery decided RESERVED and its basic_publish raised.
ReservedPublishFailed(d) == DecidedReserved(d) /\ ~NoPublishRaised(d)

(***************************************************************************)
(* C13: when the publish of a RESERVED outcome fails, the ledger decrement *)
(* and the processed_orders insertion made for that order are not rolled   *)
(* back: when the handler is left the item is decremented by qty and the   *)
(* order id is in processed_orders, and they stay so in every later state, *)
(* through the reconnect and the redelivery.                               *)
(***************************************************************************)
C13_NoRollback ==
    \A i \in Deliveries :
        LET d == deliveries[i]
            item == FieldOf(d.body, "item").s
            qty == FieldOf(d.body, "qty").n
            key == HashKey(FieldOf(d.body, "order_id"))
        IN  ReservedPublishFailed(d) =>
              /\ d.inv_after[item] = d.inv_before[item] - qty
              /\ key \in d.proc_after
              /\ inventory[item] <= d.inv_before[item] - qty
              /\ key \in processed_orders
              /\ \A j \in Deliveries :
                   j > i => /\ deliveries[j].inv_before[item] <= d.inv_after[item]
                            /\ key \in deliveries[j].proc_before

\* C13 witness: the publish of the reservation of 20 sushi raised, the
\* message was delivered again and 10 sushi are left.
C13_Witness ==
    \E i \in Deliveries : \E j \in Deliveries :
        /\ i < j
        /\ ReservedPublishFailed(deliveries[i])
        /\ deliveries[j].body = deliveries[i].body
        /\ inventory["sushi"] = 10

\* A well-formed event whose order id is not in processed_orders when it is
\* delivered, asking for an item that is not stocked, or for more than the
\* stock of the item at that moment.
UnknownItem(d) ==
    /\ WellFormedEvent(d.body)
    /\ HashKey(FieldOf(d.body, "order_id")) \notin d.proc_before
    /\ FieldOf(d.body, "item").s \notin DOMAIN d.inv_before

ShortOfStock(d) ==
    /\ WellFormedEvent(d.body)
    /\ HashKey(FieldOf(d.body, "order_id")) \notin d.proc_before
    /\ FieldOf(d.body, "item").s \in DOMAIN d.inv_before
    /\ d.inv_before[FieldOf(d.body, "item").s] < FieldOf(d.body, "qty").n

\* The reason texts of the two rejections, from the delivered event and the
\* stock before the delivery.
RejectionText(d) ==
    LET item == FieldOf(d.body, "item").s
        qty == FieldOf(d.body, "qty").n
    IN  IF UnknownItem(d)
        THEN "Item '" \o item \o "' not found in inventory"
        ELSE "Insufficient stock for '" \o item \o "': requested "
             \o ToString(qty) \o ", available " \o ToString(d.inv_before[item])

(***************************************************************************)
(* C14: a business rejection (item not in inventory, or inventory[item] <  *)
(* qty) makes exactly one publish, of a FAILED event with routing key      *)
(* inventory.failed to the exchange, whose reason is the text for the case *)
(* with the quantity available before the delivery; it leaves inventory    *)
(* unchanged and does not add the order id to processed_orders.            *)
(***************************************************************************)
C14_RejectionPublishesFailed ==
    \A i \in Deliveries :
        LET d == deliveries[i]
        IN  (UnknownItem(d) \/ ShortOfStock(d)) =>
              /\ Cardinality(PublishCalls(d, "inventory.failed")) = 1
              /\ \A c \in 1..Len(d.calls) :
                   d.calls[c].op = "basic_publish" =>
                     /\ d.calls[c].exchange = EXCHANGE
                     /\ d.calls[c].routing_key = "inventory.failed"
                     /\ FieldOf(d.calls[c].body, "status") = Str("FAILED")
                     /\ FieldOf(d.calls[c].body, "reason") = Str(RejectionText(d))
                     /\ FieldOf(d.calls[c].body, "order_id")
                          = FieldOf(d.body, "order_id")
              /\ d.inv_after = d.inv_before
              /\ d.proc_after = d.proc_before
              /\ HashKey(FieldOf(d.body, "order_id")) \notin d.proc_after

\* C14 witness: after a reservation of 20 sushi an event for 20 sushi was
\* rejected with 10 available, and 10 sushi are still there.
C14_Witness ==
    \E i \in Deliveries :
        /\ ShortOfStock(deliveries[i])
        /\ \E c \in PublishCalls(deliveries[i], "inventory.failed") :
             FieldOf(deliveries[i].calls[c].body, "reason")
               = Str("Insufficient stock for 'sushi': requested 20, available 10")
        /\ deliveries[i].inv_after["sushi"] = 10

\* The hash keys of the order ids of the deliveries so far that satisfy P.
OrderIdsOf(P(_)) ==
    { HashKey(FieldOf(deliveries[i].body, "order_id")) :
        i \in { k \in Deliveries : P(deliveries[k]) } }

TerminalDecision(d) == DecidedReserved(d) \/ DecidedFailed(d)

(***************************************************************************)
(* C15 (as stated): after any sequence of deliveries processed_orders is   *)
(* exactly the set of order ids that have produced a terminal decision,    *)
(* RESERVED or FAILED by a business rule, and no order id is inserted more *)
(* than once.                                                              *)
(***************************************************************************)
C15_ExactlyTerminalDecisions ==
    /\ processed_orders = OrderIdsOf(TerminalDecision)
    /\ \A i \in Deliveries : \A j \in Deliveries :
         ( /\ i < j
           /\ deliveries[i].proc_after # deliveries[i].proc_before
           /\ deliveries[j].proc_after # deliveries[j].proc_before )
         => deliveries[i].proc_after \ deliveries[i].proc_before
              # deliveries[j].proc_after \ deliveries[j].proc_before

(***************************************************************************)
(* C15 (amended): after any sequence of deliveries processed_orders is     *)
(* exactly the set of order ids that have been decided RESERVED; a         *)
(* delivery decided FAILED inserts nothing.  A delivery inserts an order   *)
(* id if and only if it is decided RESERVED, it inserts its own order id   *)
(* and nothing else, and no order id is decided RESERVED, and so inserted, *)
(* more than once.                                                         *)
(***************************************************************************)
C15_ExactlyReserved ==
    /\ processed_orders = OrderIdsOf(DecidedReserved)
    /\ processed_orders = IF deliveries = <<>> THEN {}
                          ELSE deliveries[Len(deliveries)].proc_after
    /\ \A i \in Deliveries :
         LET d == deliveries[i]
             key == HashKey(FieldOf(d.body, "order_id"))
         IN  /\ d.proc_before = IF i = 1 THEN {} ELSE deliveries[i - 1].proc_after
             /\ DecidedReserved(d) =>
                  (key \notin d.proc_before /\ d.proc_after = d.proc_before \cup {key})
             /\ ~DecidedReserved(d) => d.proc_after = d.proc_before
    /\ \A i \in Deliveries : \A j \in Deliveries :
         (i < j /\ DecidedReserved(deliveries[i]) /\ DecidedReserved(deliveries[j]))
         => FieldOf(deliveries[i].body, "order_id")
              # FieldOf(deliveries[j].body, "order_id")

\* C15 witness: o1 was decided RESERVED, o2 was decided FAILED, and
\* processed_orders holds o1 alone.
C15_Witness ==
    /\ processed_orders = {Str("o1")}
    /\ \E i \in Deliveries :
         /\ DecidedReserved(deliveries[i])
         /\ FieldOf(deliveries[i].body, "order_id") = Str("o1")
    /\ \E i \in Deliveries :
         /\ DecidedFailed(deliveries[i])
         /\ FieldOf(deliveries[i].body, "order_id") = Str("o2")

\* Delivery i dead-lettered an event of the order id of delivery j, or
\* rejected it as FAILED, and j is a later delivery of a well-formed event
\* for an item with at least qty in stock.
CorrectedResubmission(i, j) ==
    /\ i < j
    /\ DlqCalls(deliveries[i]) # {} \/ DecidedFailed(deliveries[i])
    /\ IsObject(deliveries[i].body)
    /\ WellFormedEvent(deliveries[j].body)
    /\ FieldOf(deliveries[i].body, "order_id") = FieldOf(deliveries[j].body, "order_id")
    /\ FieldOf(deliveries[j].body, "item").s \in DOMAIN deliveries[j].inv_before
    /\ deliveries[j].inv_before[FieldOf(deliveries[j].body, "item").s]
         >= FieldOf(deliveries[j].body, "qty").n

\* The delivery was decided RESERVED: the ledger went down by qty for the
\* item, once, and one RESERVED outcome was published, and nothing else.
ProcessedNormally(d) ==
    LET item == FieldOf(d.body, "item").s
    IN  /\ d.inv_after = [d.inv_before EXCEPT ![item] = @ - FieldOf(d.body, "qty").n]
        /\ Cardinality(PublishCalls(d, "inventory.reserved")) = 1
        /\ \A c \in 1..Len(d.calls) :
             d.calls[c].op = "basic_publish" =>
               /\ d.calls[c].routing_key = "inventory.reserved"
               /\ FieldOf(d.calls[c].body, "status") = Str("RESERVED")
               /\ FieldOf(d.calls[c].body, "order_id") = FieldOf(d.body, "order_id")

(***************************************************************************)
(* C16 (as stated): if an event for order id X was dead-lettered or        *)
(* rejected as FAILED, a later well-formed event with the same order id    *)
(* for an item with sufficient stock is RESERVED: it decrements the ledger *)
(* once and publishes one RESERVED outcome.                                *)
(***************************************************************************)
C16_ResubmissionReserved ==
    \A i \in Deliveries : \A j \in Deliveries :
        CorrectedResubmission(i, j) => ProcessedNormally(deliveries[j])

\* A delivery before delivery j decided RESERVED for the order id of j.
ReservedBefore(j) ==
    \E k \in 1..(j - 1) :
        /\ DecidedReserved(deliveries[k])
        /\ FieldOf(deliveries[k].body, "order_id")
             = FieldOf(deliveries[j].body, "order_id")

(***************************************************************************)
(* C16 (amended): as above, for an order id that has not been RESERVED     *)
(* before the later event is delivered; when it has been, the later event  *)
(* is a duplicate and is acknowledged without side effects.                *)
(***************************************************************************)
C16_ResubmissionReservedOnce ==
    \A i \in Deliveries : \A j \in Deliveries :
        CorrectedResubmission(i, j) =>
            /\ ~ReservedBefore(j) => ProcessedNormally(deliveries[j])
            /\ ReservedBefore(j) => AckedWithoutSideEffects(deliveries[j])

\* C16 witness: an event of o1 was rejected as FAILED, and the later event
\* of o1 for 20 sushi was reserved.
C16_Witness ==
    \E i \in Deliveries : \E j \in Deliveries :
        /\ CorrectedResubmission(i, j)
        /\ DecidedFailed(deliveries[i])
        /\ DecidedReserved(deliveries[j])
        /\ deliveries[j].inv_after["sushi"] = 10

\* The delivered body failed decoding (it is no JSON, or not UTF-8) or
\* validation (it is JSON and no well-formed event).
FailedDecodingOrValidation(body) == ~WellFormedEvent(body)

(***************************************************************************)
(* C17 (as stated): a delivery is published to dlq_queue if and only if    *)
(* its body failed decoding or validation; rejections for an unknown item  *)
(* or for insufficient stock are published as FAILED to the exchange and   *)
(* never reach dlq_queue, and no delivery that is dead-lettered also       *)
(* publishes an outcome event.  A call of basic_publish counts as a        *)
(* publish, whether it returns or raises.                                  *)
(***************************************************************************)
C17_DlqIffInvalid ==
    \A i \in Deliveries :
        LET d == deliveries[i]
        IN  /\ DlqCalls(d) # {} <=> FailedDecodingOrValidation(d.body)
            /\ (UnknownItem(d) \/ ShortOfStock(d)) =>
                 (DecidedFailed(d) /\ DlqCalls(d) = {})
            /\ DlqCalls(d) # {} => OutcomeCalls(d) = {}

\* The attempts of the call of get_connection() so far all raised.
AllRaised(log) == \A k \in 1..Len(log) : log[k] = "AMQPConnectionError"

\* The call returned at its first attempt that did not raise.
ReturnedAtFirstSuccess(log) ==
    /\ log # <<>>
    /\ log[Len(log)] = "connected"
    /\ AllRaised(SubSeq(log, 1, Len(log) - 1))

(***************************************************************************)
(* C18: get_connection(retries, delay) makes at most retries attempts; it  *)
(* returns a connection at the first attempt that succeeds; when every     *)
(* attempt raises a connection error it ends the process with exit code 1  *)
(* after exactly retries attempts; and it always terminates: a call that   *)
(* has started returns or exits.                                           *)
(***************************************************************************)
C18_BoundedConnect ==
    /\ [](/\ Len(attempts) <= Retries
          /\ pc = "connect" => (AllRaised(attempts) /\ Len(attempts) < Retries)
          /\ pc = "consuming" => (ReturnedAtFirstSuccess(attempts) /\ exit_code = -1)
          /\ pc = "exited" => (/\ AllRaised(attempts)
                               /\ Len(attempts) = Retries
                               /\ exit_code = 1)
          /\ exit_code = 1 <=> pc = "exited")
    /\ (pc = "connect") ~> (pc \in {"consuming", "exited"})

\* C18 witness: a call returned a connection at its third attempt.
C18_Witness ==
    /\ pc = "consuming"
    /\ attempts = <<"AMQPConnectionError", "AMQPConnectionError", "connected">>

(***************************************************************************)
(* C19 (as stated): once main() has obtained a connection and later lost   *)
(* it, no number of consecutive failed reconnection attempts makes the     *)
(* consuming loop stop or the process exit; only a failure at startup,     *)
(* before the first connection, is fatal.                                  *)
(***************************************************************************)
C19_SteadyStateNeverExits ==
    conn # "none" => (pc # "exited" /\ exit_code = -1)

\* On the channel the exchange, inventory_queue with its binding to
\* order.placed, and dlq_queue were declared before basic_consume was called.
SetUpBeforeConsuming(calls) ==
    \E c \in 1..Len(calls) :
        /\ calls[c].op = "basic_consume" /\ calls[c].queue = "inventory_queue"
        /\ \E e \in 1..(c - 1) : \E q \in 1..(c - 1) :
           \E b \in 1..(c - 1) : \E d \in 1..(c - 1) :
             /\ calls[e].op = "exchange_declare" /\ calls[e].exchange = "order_events"
             /\ calls[q].op = "queue_declare" /\ calls[q].queue = "inventory_queue"
             /\ calls[b].op = "queue_bind" /\ calls[b].queue = "inventory_queue"
             /\ calls[b].exchange = "order_events"
             /\ calls[b].routing_key = "order.placed"
             /\ calls[d].op = "queue_declare" /\ calls[d].queue = "dlq_queue"
             /\ e < b /\ q < b

\* The message of delivery i, which was not acknowledged, is still with the
\* broker (unacknowledged or back in the queue) or was delivered again.
StillOwed(i) ==
    \/ \E k \in 1..Len(unacked) : unacked[k] = deliveries[i].body
    \/ \E k \in 1..Len(inventory_queue) : inventory_queue[k] = deliveries[i].body
    \/ \E j \in Deliveries : j > i /\ deliveries[j].body = deliveries[i].body

AckedDeliveries == { i \in Deliveries : Acked(deliveries[i].calls) }

(***************************************************************************)
(* C20: after a disconnect main() consumes again only on a new connection  *)
(* whose channel setup_channel has been run on; no message that was queued *)
(* or unacknowledged when the connection was lost is dropped: it stays     *)
(* with the broker until it is delivered again; and inventory and          *)
(* processed_orders are changed by runs of the handler only, so that when  *)
(* consuming resumes they hold the values they had when it stopped.        *)
(***************************************************************************)
C20_ResumeAfterDisconnect ==
    /\ [](pc = "consuming" => (conn = "open" /\ SetUpBeforeConsuming(ch)))
    /\ [](/\ \A i \in Deliveries \ AckedDeliveries : StillOwed(i)
          /\ Len(inventory_queue) + Len(unacked) + Cardinality(AckedDeliveries)
               = published)
    /\ [][deliveries' = deliveries =>
            /\ inventory' = inventory
            /\ processed_orders' = processed_orders
            /\ unacked' \o inventory_queue' = unacked \o inventory_queue]_vars

\* C20 witness: a delivery reserved stock and was left unacknowledged when
\* the connection went, main() connected and set the channel up again, and
\* the same message was delivered again on the ledger the first run left.
C20_Witness ==
    \E i \in Deliveries : \E j \in Deliveries :
        /\ j = i + 1
        /\ ReservedPublishFailed(deliveries[i])
        /\ deliveries[j].body = deliveries[i].body
        /\ deliveries[j].inv_before = deliveries[i].inv_after
        /\ deliveries[j].proc_before = deliveries[i].proc_after
        /\ deliveries[j].inv_before # InitialInventory
        /\ pc = "consuming"
        /\ SetUpBeforeConsuming(ch)

(***************************************************************************)
(* Part 2.  The order service: src/async-rabbitmq/order_service/app.py     *)
(***************************************************************************)
\* Mutant: notification_queue is bound with both outcome keys.
order_setup_channel_NotifyAll ==
    <<ChannelCall("exchange_declare", EXCHANGE, "", ""),
      ChannelCall("queue_declare", "", "order_status_queue", ""),
      ChannelCall("queue_bind", EXCHANGE, "order_status_queue", "inventory.reserved"),
      ChannelCall("queue_bind", EXCHANGE, "order_status_queue", "inventory.failed"),
      ChannelCall("queue_declare", "", "inventory_queue", ""),
      ChannelCall("queue_bind", EXCHANGE, "inventory_queue", "order.placed"),
      ChannelCall("queue_declare", "", "notification_queue", ""),
      ChannelCall("queue_bind", EXCHANGE, "notification_queue", "inventory.reserved"),
      ChannelCall("queue_bind", EXCHANGE, "notification_queue", "inventory.failed"),
      ChannelCall("queue_declare", "", "dlq_queue", "")>>

\* setup_channel(channel) of the order service: the exchange, and every
\* queue of the system with its bindings.
order_setup_channel ==
    <<ChannelCall("exchange_declare", EXCHANGE, "", ""),
      ChannelCall("queue_declare", "", "order_status_queue", ""),
      ChannelCall("queue_bind", EXCHANGE, "order_status_queue", "inventory.reserved"),
      ChannelCall("queue_bind", EXCHANGE, "order_status_queue", "inventory.failed"),
      ChannelCall("queue_declare", "", "inventory_queue", ""),
      ChannelCall("queue_bind", EXCHANGE, "inventory_queue", "order.placed"),
      ChannelCall("queue_declare", "", "notification_queue", ""),
      ChannelCall("queue_bind", EXCHANGE, "notification_queue", "inventory.reserved"),
      ChannelCall("queue_declare", "", "dlq_queue", "")>>

\* The bindings that a sequence of channel calls declares on the exchange:
\* pairs of a queue and the routing key it is bound with.
Bindings(calls) ==
    { <<calls[i].queue, calls[i].routing_key>> :
        i \in { k \in 1..Len(calls) : /\ calls[k].op = "queue_bind"
                                      /\ calls[k].exchange = EXCHANGE } }

\* The queues a message published to the topic exchange with the given
\* routing key is copied to (the binding keys have no wildcards).
Route(routing_key) ==
    { b[1] : b \in { x \in Bindings(order_setup_channel) : x[2] = routing_key } }

\* The messages of msgs that the exchange copies to the queue, in order.
RECURSIVE Routed(_, _)
Routed(msgs, queue) ==
    IF msgs = <<>> THEN <<>>
    ELSE (IF queue \in Route(Head(msgs).routing_key) THEN <<Head(msgs)>> ELSE <<>>)
         \o Routed(Tail(msgs), queue)

\* order_status_queue: what the exchange copied to it and the status loop
\* has not acknowledged yet.
order_status_queue ==
    LET all == Routed(exchange_out, "order_status_queue")
    IN  SubSeq(all, status_consumed + 1, Len(all))

\* str(uuid.uuid4()) in the handler of request r: an id no other request has.
OrderId(r) == "u" \o ToString(r)

\* data.get(key, default)
DictGetOr(d, key, default) == IF DictHas(d, key) THEN DictGet(d, key) ELSE default

\* place_order: the order record built from the request.
OrderRecord(order_id, data) ==
    Dict(<<Pair("order_id", Str(order_id)),
           Pair("item", DictGet(data, "item")),
           Pair("qty", DictGet(data, "qty")),
           Pair("student_id", DictGetOr(data, "student_id", Str("unknown"))),
           Pair("status", Str("PLACED"))>>)

\* Mutant: only item is checked.
PlaceOrderCheck_ItemOnly(data) ==
    IF data.t # "dict" THEN "AttributeError"
    ELSE IF ~Truthy(DictGet(data, "item")) THEN "400"
    ELSE "ok"

\* place_order up to the check of the fields: "AttributeError" when the
\* JSON body is no object (data.get fails), "400" when item is empty or
\* absent or qty is absent or null, "ok" otherwise.
PlaceOrderCheck(data) ==
    IF data.t # "dict" THEN "AttributeError"
    ELSE IF ~Truthy(DictGet(data, "item")) \/ DictGet(data, "qty").t = "null" THEN "400"
    ELSE "ok"

\* A request and its handler thread: the kind of request, where the handler
\* is, the JSON body (POST) or the order id of the path (GET), the order id
\* made for it, the HTTP status code (0: no response) and the JSON of the
\* response, the exception raised in the handler, if one was, and whether
\* basic_publish returned.
Request(kind, at, data, order_id, code, body, exc) ==
    [kind |-> kind, pc |-> at, data |-> data, order_id |-> order_id,
     code |-> code, body |-> body, exc |-> exc, sent |-> FALSE]

Respond(req, code, body) == [req EXCEPT !.pc = "done", !.code = code, !.body = body]

ErrorBody(text) == Dict(<<Pair("error", Str(text))>>)

\* orders[order_id]["status"] = status
SetStatus(store, order_id, status) ==
    DictSet(store, order_id, DictSet(DictGet(store, order_id), "status", Str(status)))

StatusOf(store, order_id) == DictGet(DictGet(store, order_id), "status")

(***************************************************************************)
(* The request handlers.  Flask serves every request on a thread of its    *)
(* own; each "with orders_lock:" block is two steps, taking the lock and   *)
(* running the block (which ends by releasing it).                         *)
(***************************************************************************)
\* Where a handler that waits for orders_lock is once it holds it.
Holding(at) ==
    CASE at = "insert" -> "inserting"
      [] at = "failed" -> "failing"
      [] at = "get" -> "getting"
      [] at = "list" -> "listing"
      [] OTHER -> at

WaitsForLock(at) == at \in {"insert", "failed", "get", "list"}

\* The variables of the order service that the request handlers leave alone.
statusThread == <<status_pc, status_msg, status_consumed, status_log, order_exit_code>>

\* POST /order arrives: place_order reads the body and checks the fields.
\* A body that is no JSON object makes data.get raise: Flask answers 500.
PlaceOrderBegin(data) ==
    /\ Len(reqs) < MaxRequests
    /\ LET r == Len(reqs) + 1
           check == PlaceOrderCheck(data)
           new == Request("POST", "insert", data, OrderId(r), 0, None, "none")
       IN  reqs' = Append(reqs,
                CASE check = "AttributeError" ->
                        [Respond(new, 500, None) EXCEPT !.exc = "AttributeError"]
                  [] check = "400" ->
                        Respond(new, 400, ErrorBody("item and qty are required"))
                  [] OTHER -> new)
    /\ UNCHANGED <<orders, orders_lock, statusThread, rabbitVars, kafkaVars, restVars>>

\* A handler, __enter__ of "with orders_lock".
AcquireLock(r) ==
    /\ r \in 1..Len(reqs)
    /\ WaitsForLock(reqs[r].pc)
    /\ orders_lock = "free"
    /\ orders_lock' = ToString(r)
    /\ reqs' = [reqs EXCEPT ![r].pc = Holding(@)]
    /\ UNCHANGED <<orders, statusThread, rabbitVars, kafkaVars, restVars>>

\* with orders_lock: orders[order_id] = order
PlaceOrderInsert(r) ==
    /\ r \in 1..Len(reqs)
    /\ reqs[r].pc = "inserting"
    /\ orders' = DictSet(orders, reqs[r].order_id,
                         OrderRecord(reqs[r].order_id, reqs[r].data))
    /\ orders_lock' = "free"
    /\ reqs' = [reqs EXCEPT ![r].pc = "publish"]
    /\ UNCHANGED <<statusThread, rabbitVars, kafkaVars, restVars>>

\* get_connection(retries=3, delay=2) of place_order
PublishRetries == 3

\* The try block of place_order: connect, set the channel up, publish the
\* order with the key order.placed, close the connection.
\*   fails   how many connection attempts fail; when all of them do,
\*           get_connection calls sys.exit(1): SystemExit is no Exception,
\*           the except clause does not catch it and the thread ends
\*           without an answer from place_order;
\*   fault   "before": channel(), setup_channel or basic_publish raises;
\*           "after": basic_publish returned and close() raises;
\*           "none": the block completes.
PlaceOrderTry(req, store, fails, fault) ==
    LET connected == get_connection(1, PublishRetries, fails).connected
        sent == connected /\ fault \in {"none", "after"}
        body == json_dumps(DictGet(store, req.order_id))
    IN  [sent |-> sent,
         body |-> body,
         req |-> IF ~connected
                 THEN [req EXCEPT !.pc = "done", !.exc = "SystemExit"]
                 ELSE IF fault = "none"
                 THEN Respond(req, 201,
                              Dict(<<Pair("order_id", Str(req.order_id)),
                                     Pair("status", Str("PLACED"))>>))
                 ELSE [req EXCEPT !.pc = "failed", !.exc = "AMQPError"]]

PlaceOrderPublish(r) ==
    /\ r \in 1..Len(reqs)
    /\ reqs[r].pc = "publish"
    /\ \E fails \in 0..PublishRetries, fault \in {"none", "before", "after"} :
         LET t == PlaceOrderTry(reqs[r], orders, fails, fault)
         IN  /\ reqs' = [reqs EXCEPT ![r] = [t.req EXCEPT !.sent = t.sent]]
             /\ inventory_queue' = IF t.sent THEN Append(inventory_queue, t.body)
                                   ELSE inventory_queue
    /\ UNCHANGED <<orders, orders_lock, statusThread, kafkaVars, restVars>>
    /\ UNCHANGED <<inventory, processed_orders, unacked, dlq_queue, exchange_out, pc,
                   published, deliveries, mainVars>>

\* except Exception: with orders_lock: status = "PUBLISH_FAILED"; answer 500.
PlaceOrderFailed(r) ==
    /\ r \in 1..Len(reqs)
    /\ reqs[r].pc = "failing"
    /\ orders' = SetStatus(orders, reqs[r].order_id, "PUBLISH_FAILED")
    /\ orders_lock' = "free"
    /\ reqs' = [reqs EXCEPT ![r] =
                  Respond(@, 500, Dict(<<Pair("order_id", Str(@.order_id)),
                                         Pair("status", Str("PUBLISH_FAILED")),
                                         Pair("error", Str(@.exc))>>))]
    /\ UNCHANGED <<statusThread, rabbitVars, kafkaVars, restVars>>

\* GET /order/<order_id> arrives.
GetOrderBegin(order_id) ==
    /\ Len(reqs) < MaxRequests
    /\ reqs' = Append(reqs, Request("GET", "get", None, order_id, 0, None, "none"))
    /\ UNCHANGED <<orders, orders_lock, statusThread, rabbitVars, kafkaVars, restVars>>

\* with orders_lock: order = orders.get(order_id); then 404 when absent.
\* The handler keeps a reference to the record and leaves the block.
GetOrderLookup(r) ==
    /\ r \in 1..Len(reqs)
    /\ reqs[r].pc = "getting"
    /\ orders_lock' = "free"
    /\ reqs' = [reqs EXCEPT ![r] =
                  IF DictHas(orders, @.order_id) THEN [@ EXCEPT !.pc = "serialise"]
                  ELSE Respond(@, 404, ErrorBody("Order not found"))]
    /\ UNCHANGED <<orders, statusThread, rabbitVars, kafkaVars, restVars>>

\* return jsonify(order), 200: the record is read through the reference,
\* after the lock was released.
GetOrderSerialise(r) ==
    /\ r \in 1..Len(reqs)
    /\ reqs[r].pc = "serialise"
    /\ reqs' = [reqs EXCEPT ![r] = Respond(@, 200, DictGet(orders, @.order_id))]
    /\ UNCHANGED <<orders, orders_lock, statusThread, rabbitVars, kafkaVars, restVars>>

\* GET /orders arrives.
ListOrdersBegin ==
    /\ Len(reqs) < MaxRequests
    /\ reqs' = Append(reqs, Request("LIST", "list", None, "", 0, None, "none"))
    /\ UNCHANGED <<orders, orders_lock, statusThread, rabbitVars, kafkaVars, restVars>>

\* list(orders.values())
RECURSIVE DictValues(_, _)
DictValues(pairs, i) ==
    IF i > Len(pairs) THEN <<>>
    ELSE <<pairs[i].items[1]>> \o DictValues(pairs, i + 1)

\* with orders_lock: return jsonify(list(orders.values())), 200
ListOrders(r) ==
    /\ r \in 1..Len(reqs)
    /\ reqs[r].pc = "listing"
    /\ orders_lock' = "free"
    /\ reqs' = [reqs EXCEPT ![r] = Respond(@, 200, List(DictValues(orders.items, 1)))]
    /\ UNCHANGED <<orders, statusThread, rabbitVars, kafkaVars, restVars>>

(***************************************************************************)
(* The status thread: status_consumer() and its callback on_status, run    *)
(* on a daemon thread next to the Flask server.                            *)
(***************************************************************************)
\* status_consumer: get_connection() with the default 15 retries, then
\* setup_channel, basic_qos and basic_consume.  When every attempt fails
\* sys.exit(1) raises SystemExit in this thread: "except Exception" does
\* not catch it and the thread ends.  It is not the main thread, so the
\* process and its Flask server keep running.
StatusConnect ==
    /\ status_pc = "connect"
    /\ \E fails \in {0, Retries} :
         status_pc' = IF get_connection(1, Retries, fails).connected
                      THEN "consuming" ELSE "ended"
    /\ UNCHANGED <<orders, orders_lock, reqs, status_msg, status_consumed, status_log,
                   order_exit_code, rabbitVars, kafkaVars, restVars>>

\* start_consuming raises: logged, sleep 5 s, and the loop connects again.
StatusConnectionLost ==
    /\ status_pc = "consuming"
    /\ status_pc' = "connect"
    /\ UNCHANGED <<orders, orders_lock, reqs, status_msg, status_consumed, status_log,
                   order_exit_code, rabbitVars, kafkaVars, restVars>>

\* on_status up to the lock: json.loads(body), data.get("order_id"),
\* data.get("status", "UNKNOWN"), and the status the order is to get:
\* CONFIRMED for RESERVED, FAILED for everything else.
StatusRead(body) ==
    LET dec == json_loads(body)
    IN  IF dec.exc # "none" THEN [exc |-> dec.exc, order_id |-> None, new_status |-> ""]
        ELSE IF dec.v.t # "dict"
        THEN [exc |-> "AttributeError", order_id |-> None, new_status |-> ""]
        ELSE [exc |-> "none",
              order_id |-> DictGet(dec.v, "order_id"),
              new_status |-> IF DictGetOr(dec.v, "status", Str("UNKNOWN")) = Str("RESERVED")
                             THEN "CONFIRMED" ELSE "FAILED"]

\* What the log of the status thread keeps of one delivery.
\* the body, the exception "except Exception" caught, the order id and the
\* status computed from the body, whether the order id was in orders, and
\* the number of basic_ack calls.
StatusDelivery(body, exc, order_id, new_status, known, acks) ==
    [body |-> body, exc |-> exc, order_id |-> order_id, new_status |-> new_status,
     known |-> known, acks |-> acks]

\* A delivery of order_status_queue starts.  An exception before the lock
\* is logged by "except Exception"; "finally" acknowledges the message.
OnStatusBegin ==
    /\ status_pc = "consuming"
    /\ order_status_queue # <<>>
    /\ LET body == Head(order_status_queue).body
           rd == StatusRead(body)
       IN  IF rd.exc # "none"
           THEN /\ status_consumed' = status_consumed + 1
                /\ status_log' = Append(status_log,
                       StatusDelivery(body, rd.exc, None, "", FALSE, 1))
                /\ UNCHANGED <<status_pc, status_msg>>
           ELSE /\ status_pc' = "lock"
                /\ status_msg' = StatusDelivery(body, "none", rd.order_id,
                                                rd.new_status, FALSE, 0)
                /\ UNCHANGED <<status_consumed, status_log>>
    /\ UNCHANGED <<orders, orders_lock, reqs, order_exit_code, rabbitVars, kafkaVars, restVars>>

\* __enter__ of "with orders_lock" in on_status.
OnStatusAcquire ==
    /\ status_pc = "lock"
    /\ orders_lock = "free"
    /\ orders_lock' = "status"
    /\ status_pc' = "locked"
    /\ UNCHANGED <<orders, reqs, status_msg, status_consumed, status_log,
                   order_exit_code, rabbitVars, kafkaVars, restVars>>

\* "order_id in orders": TypeError for an unhashable order_id; the keys of
\* orders are all strings.
KnownOrder(order_id, store) == order_id.t = "str" /\ DictHas(store, order_id.s)

\* The block under the lock: if order_id in orders: set the status.
UpdateStatus_Always(order_id, new_status, store) ==
    IF order_id.t = "str" THEN SetStatus(store, order_id.s, new_status) ELSE store

UpdateStatus(order_id, new_status, store) ==
    IF KnownOrder(order_id, store) THEN SetStatus(store, order_id.s, new_status)
    ELSE store

\* with orders_lock: ... ; finally: ch.basic_ack
OnStatusUpdate ==
    /\ status_pc = "locked"
    /\ LET exc == IF Hashable(status_msg.order_id) THEN "none" ELSE "TypeError"
       IN  /\ orders' = IF exc = "none"
                         THEN UpdateStatus(status_msg.order_id, status_msg.new_status,
                                           orders)
                         ELSE orders
           /\ status_log' = Append(status_log,
                  [status_msg EXCEPT !.exc = exc,
                                     !.known = KnownOrder(status_msg.order_id, orders),
                                     !.acks = 1])
    /\ orders_lock' = "free"
    /\ status_consumed' = status_consumed + 1
    /\ status_pc' = "consuming"
    /\ status_msg' = None
    /\ UNCHANGED <<reqs, order_exit_code, rabbitVars, kafkaVars, restVars>>

(***************************************************************************)
(* The order service on its own: requests arrive, and other services       *)
(* publish outcome events to the exchange.                                 *)
(***************************************************************************)
\* Outcome events as the inventory service publishes them, for the order u0
\* and for an order this service never placed, and other messages that can
\* reach order_status_queue.
Outcomes ==
    { [routing_key |-> "inventory.reserved",
       body |-> json_dumps(ReservedEvent(Str("u0"), Str("burger"), Num(1)))],
      [routing_key |-> "inventory.failed",
       body |-> json_dumps(FailedEvent(Str("u0"), Str("burger"), Num(1), "no stock"))],
      [routing_key |-> "inventory.reserved",
       body |-> json_dumps(ReservedEvent(Str("zz"), Str("burger"), Num(1)))],
      [routing_key |-> "inventory.failed",
       body |-> Compact(<<Pair("order_id", List(<<Str("u0")>>))>>)],
      [routing_key |-> "inventory.failed", body |-> NotJson] }

PublishOutcome(m) ==
    /\ Len(exchange_out) < MaxOutcomes
    /\ exchange_out' = Append(exchange_out, m)
    /\ UNCHANGED <<inventory, processed_orders, inventory_queue, unacked, dlq_queue, pc,
                   published, deliveries, mainVars, orderVars, kafkaVars, restVars>>

\* What the clients of the order service send.
PostBodies ==
    { Dict(<<Pair("item", Str("burger")), Pair("qty", Num(1))>>),
      Dict(<<Pair("item", Str("burger")), Pair("qty", None)>>),
      List(<<Str("burger")>>) }

GetIds == {"u0", "u1"}

NextRequests ==
    \/ \E data \in PostBodies : PlaceOrderBegin(data)
    \/ \E order_id \in GetIds : GetOrderBegin(order_id)
    \/ ListOrdersBegin
    \/ \E r \in 1..MaxRequests :
         \/ AcquireLock(r)
         \/ PlaceOrderInsert(r)
         \/ PlaceOrderPublish(r)
         \/ PlaceOrderFailed(r)
         \/ GetOrderLookup(r)
         \/ GetOrderSerialise(r)
         \/ ListOrders(r)

NextStatus ==
    \/ StatusConnect
    \/ StatusConnectionLost
    \/ OnStatusBegin
    \/ OnStatusAcquire
    \/ OnStatusUpdate

NextOrderService ==
    \/ NextRequests
    \/ NextStatus
    \/ \E m \in Outcomes : PublishOutcome(m)

\* The service has accepted and published one order, u0, before.
EarlierOrders ==
    Dict(<<Pair("u0", OrderRecord("u0", Dict(<<Pair("item", Str("burger")),
                                               Pair("qty", Num(1))>>)))>>)

InitEarlierOrder ==
    /\ InitOrderService
    /\ orders = EarlierOrders
    /\ InitKafka
    /\ InitSyncRest(FALSE, 0)
    /\ inventory = InitialInventory
    /\ processed_orders = {}
    /\ inventory_queue = <<>>
    /\ unacked = <<>>
    /\ dlq_queue = <<>>
    /\ exchange_out = <<>>
    /\ pc = "connect"
    /\ published = 0
    /\ deliveries = <<>>
    /\ conn = "none"
    /\ ch = <<>>
    /\ attempts = <<>>
    /\ exit_code = -1

SpecOrderService == InitEarlierOrder /\ [][NextOrderService]_vars

(***************************************************************************)
(* Claims about the order service.                                         *)
(***************************************************************************)
Requests == 1..Len(reqs)

\* The handler of request r is place_order and its try block ended without
\* basic_publish having returned.
PublishFailed(r) ==
    /\ reqs[r].kind = "POST"
    /\ reqs[r].exc \in {"SystemExit", "AMQPError"}
    /\ ~reqs[r].sent

\* The handler of request r has ended (with a response or by an exception
\* nothing caught).
Ended(r) == reqs[r].pc = "done"

(***************************************************************************)
(* C23: when place_order could not publish the event of an order, the      *)
(* three failed connection attempts included, then once the handler has    *)
(* ended the order's record has status PUBLISH_FAILED, not PLACED, and the *)
(* response is the 500 that reports PUBLISH_FAILED.                        *)
(***************************************************************************)
C23_PublishFailureSurfaces ==
    \A r \in Requests :
        PublishFailed(r) /\ Ended(r) =>
            /\ StatusOf(orders, reqs[r].order_id) = Str("PUBLISH_FAILED")
            /\ reqs[r].code = 500
            /\ DictGet(reqs[r].body, "status") = Str("PUBLISH_FAILED")

(***************************************************************************)
(* C29: once the status thread has used up the connection attempts of      *)
(* get_connection, the process of the order service has exited with a      *)
(* code that is not zero, and no request is accepted after that: the       *)
(* service never takes orders with no status consumer running.             *)
(***************************************************************************)
C29_ExitWithoutStatusConsumer ==
    /\ [](status_pc = "ended" => order_exit_code > 0)
    /\ [][status_pc = "ended" => Len(reqs') = Len(reqs)]_vars

\* The body of POST request r is a JSON object without a usable item or
\* qty: item absent, null or empty, or qty absent or null.
MissingItemOrQty(r) ==
    /\ reqs[r].data.t = "dict"
    /\ \/ ~DictHas(reqs[r].data, "item")
       \/ ~Truthy(DictGet(reqs[r].data, "item"))
       \/ ~DictHas(reqs[r].data, "qty")
       \/ DictGet(reqs[r].data, "qty") = None

\* The body of POST request r is a JSON object with both item and qty.
CompleteOrder(r) == reqs[r].data.t = "dict" /\ ~MissingItemOrQty(r)

\* The positions of inventory_queue that hold an event of the given order.
EventsOf(order_id) ==
    { i \in 1..Len(inventory_queue) :
        /\ IsObject(inventory_queue[i])
        /\ FieldOf(inventory_queue[i], "order_id") = Str(order_id) }

\* The number of records stored under the given order id.
RecordsOf(order_id) ==
    Cardinality({ i \in 1..Len(orders.items) : orders.items[i].s = order_id })

\* The record place_order builds for request r, as stored and as published.
PlacedRecord(r) == OrderRecord(reqs[r].order_id, reqs[r].data)

\* The order id of request r is one no earlier order and no other request has.
FreshOrderId(r) ==
    /\ ~DictHas(EarlierOrders, reqs[r].order_id)
    /\ \A q \in Requests : q # r /\ reqs[q].kind = "POST" => reqs[q].order_id # reqs[r].order_id

\* Request r left nothing behind: no record and no event.
NothingCreated(r) ==
    /\ RecordsOf(reqs[r].order_id) = 0
    /\ EventsOf(reqs[r].order_id) = {}

NamesKnownOrder(body, store) ==
    /\ IsObject(body)
    /\ FieldOf(body, "order_id").t = "str"
    /\ DictHas(store, FieldOf(body, "order_id").s)

\* The status the status loop is to write for an outcome event.
MappedStatus(body) ==
    IF FieldOf(body, "status") = Str("RESERVED") THEN "CONFIRMED" ELSE "FAILED"

\* Everything the exchange has copied to order_status_queue so far.
StatusMessages == Routed(exchange_out, "order_status_queue")

(***************************************************************************)
(* C25: a step of the status loop that finishes a delivery acknowledges    *)
(* exactly that message; when the message is an outcome event naming an    *)
(* order of the store with status RESERVED the step sets that record, and  *)
(* no other, to CONFIRMED, with status FAILED to FAILED; when the order id *)
(* is not in the store, or processing failed, the store is unchanged.      *)
(* Every message is acknowledged once, in the order of arrival, and none   *)
(* is handled a second time.                                               *)
(***************************************************************************)
C25_OutcomeMappedAndAcked ==
    /\ [][status_consumed' # status_consumed =>
            LET body == Head(order_status_queue).body
            IN  /\ status_consumed' = status_consumed + 1
                /\ order_status_queue' = Tail(order_status_queue)
                /\ IF NamesKnownOrder(body, orders)
                      /\ FieldOf(body, "status") \in {Str("RESERVED"), Str("FAILED")}
                   THEN orders' = SetStatus(orders, FieldOf(body, "order_id").s,
                                            MappedStatus(body))
                   ELSE NamesKnownOrder(body, orders) \/ orders' = orders]_vars
    /\ [](/\ Len(status_log) = status_consumed
          /\ status_consumed <= Len(StatusMessages)
          /\ \A i \in 1..Len(status_log) :
                /\ status_log[i].acks = 1
                /\ status_log[i].body = StatusMessages[i].body)

\* C25 witness: the RESERVED outcome of the order u0 was handled and
\* acknowledged, and the record of u0 is CONFIRMED.
C25_Witness ==
    /\ status_consumed = 1
    /\ status_log[1].known
    /\ FieldOf(status_log[1].body, "status") = Str("RESERVED")
    /\ status_log[1].acks = 1
    /\ StatusOf(orders, "u0") = Str("CONFIRMED")
    /\ order_status_queue = <<>>

\* The next step of the handler of request r reads or writes the orders map
\* or a record of it: the insert, the PUBLISH_FAILED write, the lookup, the
\* listing, json.dumps(order) for the event and jsonify(order) for the
\* response.
TouchesOrders(r) ==
    reqs[r].pc \in {"inserting", "publish", "failing", "getting", "listing", "serialise"}

\* The status thread is in the block that looks the order up and writes its
\* status.
StatusTouchesOrders == status_pc = "locked"

\* The handler of request r is about to read the record that the status
\* thread is about to write.
ReadsWhileWritten(r) ==
    /\ reqs[r].pc \in {"publish", "serialise"}
    /\ StatusTouchesOrders
    /\ status_msg.order_id = Str(reqs[r].order_id)

(***************************************************************************)
(* C26: every step that reads or writes the orders map or one of its       *)
(* records is taken by a thread that holds orders_lock, so that no handler *)
(* reads a record while the status thread is writing it.                   *)
(***************************************************************************)
C26_AccessUnderLock ==
    /\ StatusTouchesOrders => orders_lock = "status"
    /\ \A r \in Requests :
          /\ TouchesOrders(r) => orders_lock = ToString(r)
          /\ ~ReadsWhileWritten(r)

(***************************************************************************)
(* The services together: orders placed through POST /order, the           *)
(* inventory consumer (stopped at first) handling them with a broker       *)
(* that accepts every connection and every publish of the consumers, and   *)
(* the status thread applying the outcome events.                          *)
(***************************************************************************)
\* What the clients send: an order the stock covers, one it does not, and
\* orders the front door accepts with a qty of 0 and with a list as item.
PipelineBodies ==
    { Dict(<<Pair("item", Str("burger")), Pair("qty", Num(1))>>),
      Dict(<<Pair("item", Str("burger")), Pair("qty", Num(1000))>>),
      Dict(<<Pair("item", Str("burger")), Pair("qty", Num(0))>>),
      Dict(<<Pair("item", List(<<Str("burger")>>)), Pair("qty", Num(1))>>) }

\* The inventory consumer is started, or starts over, and connects.
ConsumerStart == GetConnection /\ pc' = "consuming"

\* A delivery to the inventory consumer in which no basic_publish raises.
ConsumerDelivery == OnOrderPlaced /\ NoPublishRaised(deliveries'[Len(deliveries')])

\* The status thread connects.
StatusStart == StatusConnect /\ status_pc' = "consuming"

NextPipeline ==
    \/ \E data \in PipelineBodies : PlaceOrderBegin(data)
    \/ \E r \in 1..MaxRequests :
         \/ AcquireLock(r)
         \/ PlaceOrderInsert(r)
         \/ PlaceOrderPublish(r)
         \/ PlaceOrderFailed(r)
    \/ ConsumerStart
    \/ BrokerRequeue
    \/ ConsumerDelivery
    \/ StatusStart
    \/ OnStatusBegin
    \/ OnStatusAcquire
    \/ OnStatusUpdate

SpecPipeline == Init /\ [][NextPipeline]_vars

\* The ids of the orders in the store.
StoredIds(store) == { store.items[i].s : i \in 1..Len(store.items) }

Final == {Str("CONFIRMED"), Str("FAILED")}

(***************************************************************************)
(* C22: the status of a record never moves backward.  No step changes the  *)
(* status of a record that is CONFIRMED or FAILED, and a step that makes   *)
(* a record CONFIRMED or FAILED is a step of the status loop finishing a   *)
(* delivery, whatever the interleaving of place_order and on_status.       *)
(***************************************************************************)
C22_StatusNeverBackward ==
    [][\A id \in StoredIds(orders) :
          /\ StatusOf(orders, id) \in Final => StatusOf(orders', id) = StatusOf(orders, id)
          /\ StatusOf(orders', id) \in Final /\ StatusOf(orders', id) # StatusOf(orders, id)
                => status_pc = "locked" /\ status_consumed' = status_consumed + 1]_vars

\* The event place_order published for request r.
PlacedEvent(r) == json_dumps(PlacedRecord(r))

\* The orders whose event basic_publish has accepted.
Published == { r \in Requests : reqs[r].kind = "POST" /\ reqs[r].sent }

\* The deliveries of the event of request r to the inventory consumer.
DeliveriesOf(r) == { i \in Deliveries : deliveries[i].body = PlacedEvent(r) }

\* The inventory consumer has not been started yet.
ConsumerStopped == pc = "connect" /\ deliveries = <<>>

(***************************************************************************)
(* C21: the event of every order placed through POST /order is retained:   *)
(* it is in inventory_queue while the consumer is stopped, and later it    *)
(* is in the queue or has been delivered; and every delivery of such an    *)
(* event to the restarted consumer ends with its acknowledgment, so that   *)
(* the backlog drains to depth 0 and no order is lost.                     *)
(***************************************************************************)
C21_BacklogRetainedAndAcked ==
    \A r \in Published :
        /\ ConsumerStopped => EventsOf(reqs[r].order_id) # {}
        /\ EventsOf(reqs[r].order_id) # {} \/ DeliveriesOf(r) # {}
        /\ \A i \in DeliveriesOf(r) : Cardinality(AckCalls(deliveries[i])) = 1

\* The order of request r was accepted: answered 201 with status PLACED.
Accepted(r) == reqs[r].kind = "POST" /\ reqs[r].code = 201

\* The event of request r is still to be handled by the inventory consumer:
\* it is in inventory_queue or delivered and not acknowledged.
EventPending(r) ==
    \/ EventsOf(reqs[r].order_id) # {}
    \/ \E i \in 1..Len(unacked) : unacked[i] = PlacedEvent(r)

\* An outcome event of the order of request r is still to be applied by
\* the status loop.
OutcomePending(r) ==
    \E i \in 1..Len(order_status_queue) :
        /\ IsObject(order_status_queue[i].body)
        /\ FieldOf(order_status_queue[i].body, "order_id") = Str(reqs[r].order_id)

(***************************************************************************)
(* C24: every order accepted with 201 gets its record set to CONFIRMED or  *)
(* FAILED by the status loop when the broker and both consumers keep       *)
(* running.  Stated so that a finite run refutes it: as long as the record *)
(* of an accepted order is neither CONFIRMED nor FAILED, the order's event *)
(* is still to be handled by the inventory consumer or an outcome event    *)
(* of the order is still to be applied by the status loop.                 *)
(***************************************************************************)
C24_AcceptedOrderResolved ==
    \A r \in Requests :
        Accepted(r) =>
            \/ StatusOf(orders, reqs[r].order_id) \in Final
            \/ EventPending(r)
            \/ OutcomePending(r)

\* The outcome events a delivery published: its basic_publish calls to the
\* exchange order_events that returned.
OutcomesOf(d) ==
    { i \in 1..Len(d.calls) :
        /\ d.calls[i].op = "basic_publish"
        /\ d.calls[i].exchange = EXCHANGE
        /\ d.calls[i].ok }

\* The routing key that goes with the status of an outcome event.
KeyOfStatus(body) ==
    IF FieldOf(body, "status") = Str("RESERVED") THEN "inventory.reserved"
    ELSE IF FieldOf(body, "status") = Str("FAILED") THEN "inventory.failed"
    ELSE "none"

\* The messages of a sequence whose status is RESERVED, in order.
RECURSIVE ReservedOnly(_)
ReservedOnly(msgs) ==
    IF msgs = <<>> THEN <<>>
    ELSE (IF FieldOf(Head(msgs).body, "status") = Str("RESERVED")
          THEN <<Head(msgs)>> ELSE <<>>) \o ReservedOnly(Tail(msgs))

(***************************************************************************)
(* C28: every outcome event on_order_placed publishes has the routing key  *)
(* of its status, inventory.reserved for RESERVED and inventory.failed for *)
(* FAILED, and the order_id of the event delivered; with the bindings of   *)
(* setup_channel, order_status_queue receives every outcome event and      *)
(* notification_queue receives exactly the RESERVED ones.                  *)
(***************************************************************************)
C28_OutcomeRouting ==
    /\ \A i \in Deliveries :
          \A k \in OutcomesOf(deliveries[i]) :
             LET c == deliveries[i].calls[k]
             IN  /\ IsObject(c.body)
                 /\ c.routing_key \in {"inventory.reserved", "inventory.failed"}
                 /\ c.routing_key = KeyOfStatus(c.body)
                 /\ FieldOf(c.body, "order_id") = FieldOf(deliveries[i].body, "order_id")
    /\ Routed(exchange_out, "order_status_queue") = exchange_out
    /\ Routed(exchange_out, "notification_queue") = ReservedOnly(exchange_out)
    /\ Routed(exchange_out, "inventory_queue") = <<>>
    /\ Routed(exchange_out, "dlq_queue") = <<>>

\* C28 witness: a RESERVED and a FAILED outcome were published; both are
\* routed to order_status_queue and only the first to notification_queue.
C28_Witness ==
    /\ Len(exchange_out) = 2
    /\ exchange_out[1].routing_key = "inventory.reserved"
    /\ exchange_out[2].routing_key = "inventory.failed"
    /\ Len(Routed(exchange_out, "order_status_queue")) = 2
    /\ Routed(exchange_out, "notification_queue") = <<exchange_out[1]>>

(***************************************************************************)
(* Part 3.  The Kafka inventory consumer:                                  *)
(* src/streaming-kafka/inventory_consumer/app.py                           *)
(***************************************************************************)
INVENTORY_TOPIC == "inventory-events"
DLQ_TOPIC == "dlq-order-events"

\* A call the loop makes on its producer or consumer, and whether it
\* returned (ok) or raised.
KafkaCall(op, topic, key, value, ok) ==
    [op |-> op, topic |-> topic, key |-> key, value |-> value, ok |-> ok]

\* The decimal numerals int() is applied to in this model.
Numerals == -1..9

\* int(v): an int as it is, a bool as 0 or 1, a float truncated, a str
\* parsed as a decimal numeral (ValueError otherwise), TypeError for None,
\* lists and dicts.
PyInt(v) ==
    IF v.t \in {"int", "bool"} THEN [exc |-> "none", n |-> v.n]
    ELSE IF v.t = "float"
    THEN IF \E k \in Numerals : v.s \in {ToString(k) \o ".0", ToString(k) \o ".5"}
         THEN [exc |-> "none",
               n |-> CHOOSE k \in Numerals : v.s \in {ToString(k) \o ".0", ToString(k) \o ".5"}]
         ELSE [exc |-> "OverflowError", n |-> 0]
    ELSE IF v.t = "str"
    THEN IF \E k \in Numerals : v.s = ToString(k)
         THEN [exc |-> "none", n |-> CHOOSE k \in Numerals : v.s = ToString(k)]
         ELSE [exc |-> "ValueError", n |-> 0]
    ELSE [exc |-> "TypeError", n |-> 0]

\* stock.get(item_id, 0)
StockGet(stk, item_id) ==
    IF item_id.t = "str" /\ item_id.s \in DOMAIN stk THEN stk[item_id.s] ELSE 0

\* The outcome events.  event_id (a fresh uuid) and event_time are left out.
InventoryReserved(order_id, item_id, qty) ==
    Dict(<<Pair("event_type", Str("InventoryReserved")), Pair("order_id", order_id),
           Pair("item_id", item_id), Pair("qty", Num(qty)),
           Pair("status", Str("reserved"))>>)

InventoryFailed(order_id, item_id, qty) ==
    Dict(<<Pair("event_type", Str("InventoryFailed")), Pair("order_id", order_id),
           Pair("item_id", item_id), Pair("qty", Num(qty)),
           Pair("status", Str("failed")), Pair("reason", Str("out_of_stock"))>>)

\* raw.decode("utf-8", errors="replace"): every byte that is not UTF-8
\* becomes the replacement character U+FFFD.
Replacement == Tok("U+FFFD")

DecodeReplace(raw) ==
    [i \in 1..Len(raw) |-> IF raw[i].t = "badbyte" THEN Replacement ELSE raw[i]]

\* to_dlq's payload: the error text and the text of the raw message.
PoisonOrderEvent(err, raw) ==
    [event_type |-> "PoisonOrderEvent", error |-> err, raw |-> DecodeReplace(raw)]

\* The result of handling one message: the stock, the calls made, the
\* exception the except clause caught ("none" when the try block ended),
\* whether the offset was committed, and whether the process ended.
KafkaResult(stk, calls, exc, done, crashed) ==
    [stock |-> stk, calls |-> calls, exc |-> exc, committed |-> done, crashed |-> crashed]

\* Mutant: the except clause commits the offset before it calls to_dlq.
KafkaPoison_CommitFirst(raw, stk, calls, exc, text) ==
    [stock |-> stk,
     calls |-> calls \o <<KafkaCall("commit", "", None, None, TRUE),
                          KafkaCall("produce", DLQ_TOPIC, None,
                                    [event_type |-> "PoisonOrderEvent", error |-> text,
                                     raw |-> raw], TRUE),
                          KafkaCall("flush", "", None, None, TRUE)>>,
     exc |-> exc, committed |-> TRUE, crashed |-> FALSE]

\* except Exception as e: to_dlq(producer, raw, str(e)); consumer.commit.
KafkaPoison(raw, stk, calls, exc, text) ==
    KafkaResult(stk,
                calls \o <<KafkaCall("produce", DLQ_TOPIC, None, PoisonOrderEvent(text, raw), TRUE),
                           KafkaCall("flush", "", None, None, TRUE),
                           KafkaCall("commit", "", None, None, TRUE)>>,
                exc, TRUE, FALSE)

\* The except clause when a call of to_dlq or the commit after it raises:
\* nothing catches the exception, main() ends through its finally clause.
KafkaPoisonFault(raw, stk, calls, exc, text, fault) ==
    IF fault = "dlq_produce"
    THEN KafkaResult(stk,
             calls \o <<KafkaCall("produce", DLQ_TOPIC, None, PoisonOrderEvent(text, raw), FALSE)>>,
             exc, FALSE, TRUE)
    ELSE IF fault = "dlq_commit"
    THEN KafkaResult(stk,
             calls \o <<KafkaCall("produce", DLQ_TOPIC, None, PoisonOrderEvent(text, raw), TRUE),
                        KafkaCall("flush", "", None, None, TRUE),
                        KafkaCall("commit", "", None, None, FALSE)>>,
             exc, FALSE, TRUE)
    ELSE KafkaPoison(raw, stk, calls, exc, text)

\* str(KeyError(key))
KeyErrorText(key) == "'" \o key \o "'"

\* The first of the keys that event[...] does not find, "" when all are there.
MissingKey(event) ==
    IF ~DictHas(event, "order_id") THEN "order_id"
    ELSE IF ~DictHas(event, "item_id") THEN "item_id"
    ELSE IF ~DictHas(event, "qty") THEN "qty"
    ELSE ""

\* What can go wrong outside the handler's own logic while a message is
\* handled: nothing, producer.produce of the outcome raising, the first
\* consumer.commit raising, and the process being killed after flush
\* returned and before commit; for a message that reaches the except clause
\* without such a fault, producer.produce of to_dlq raising and the commit
\* after to_dlq raising.
KafkaFaults == {"none", "produce", "commit", "kill", "dlq_produce", "dlq_commit"}

\* The faults that end the process.
KafkaFatal == {"kill", "dlq_produce", "dlq_commit"}

\* One pass of the loop of main() for the message raw, from json.loads to
\* the commit.  The text of a decoding error stands for str(e).
kafka_handle(raw, stk, fault) ==
    LET dec == json_loads(raw)
        event == dec.v
    IN  IF dec.exc # "none" THEN KafkaPoisonFault(raw, stk, <<>>, dec.exc, dec.exc, fault)
        ELSE IF event.t # "dict"
        THEN KafkaPoisonFault(raw, stk, <<>>, "AttributeError", "no attribute 'get'", fault)
        ELSE IF DictGet(event, "event_type") # Str("OrderPlaced")
        THEN KafkaPoisonFault(raw, stk, <<>>, "ValueError", "unexpected event_type", fault)
        ELSE IF MissingKey(event) # ""
        THEN KafkaPoisonFault(raw, stk, <<>>, "KeyError", KeyErrorText(MissingKey(event)), fault)
        ELSE IF PyInt(DictGet(event, "qty")).exc # "none"
        THEN KafkaPoisonFault(raw, stk, <<>>, PyInt(DictGet(event, "qty")).exc, "int()", fault)
        ELSE IF ~Hashable(DictGet(event, "item_id"))
        THEN KafkaPoisonFault(raw, stk, <<>>, "TypeError", "unhashable type", fault)
        ELSE
        LET order_id == DictGet(event, "order_id")
            item_id == DictGet(event, "item_id")
            qty == PyInt(DictGet(event, "qty")).n
            enough == StockGet(stk, item_id) >= qty
            known == item_id.t = "str" /\ item_id.s \in DOMAIN stk
        IN  IF enough /\ ~known
            THEN KafkaPoisonFault(raw, stk, <<>>, "KeyError", KeyErrorText(PyStr(item_id)),
                                  fault)
            ELSE
            LET stk2 == IF enough THEN [stk EXCEPT ![item_id.s] = @ - qty] ELSE stk
                out == IF enough THEN InventoryReserved(order_id, item_id, qty)
                       ELSE InventoryFailed(order_id, item_id, qty)
                produced == <<KafkaCall("produce", INVENTORY_TOPIC, order_id, out, TRUE),
                              KafkaCall("flush", "", None, None, TRUE)>>
            IN  IF order_id.t \notin {"str", "null"}
                THEN KafkaPoisonFault(raw, stk2,
                         <<KafkaCall("produce", INVENTORY_TOPIC, order_id, out, FALSE)>>,
                         "TypeError", "key", fault)
                ELSE IF fault = "produce"
                THEN KafkaPoison(raw, stk2,
                         <<KafkaCall("produce", INVENTORY_TOPIC, order_id, out, FALSE)>>,
                         "BufferError", "queue full")
                ELSE IF fault = "kill"
                THEN KafkaResult(stk2, produced, "none", FALSE, TRUE)
                ELSE IF fault = "commit"
                THEN KafkaPoison(raw, stk2,
                         produced \o <<KafkaCall("commit", "", None, None, FALSE)>>,
                         "KafkaException", "commit failed")
                ELSE KafkaResult(stk2,
                         produced \o <<KafkaCall("commit", "", None, None, TRUE)>>,
                         "none", TRUE, FALSE)

\* The values of the produce calls to the given topic that returned.
RECURSIVE ProducedTo(_, _)
ProducedTo(calls, topic) ==
    IF calls = <<>> THEN <<>>
    ELSE (IF Head(calls).op = "produce" /\ Head(calls).topic = topic /\ Head(calls).ok
          THEN <<Head(calls).value>> ELSE <<>>)
         \o ProducedTo(Tail(calls), topic)

\* What kafka_log keeps of one pass: the offset and the message, the stock
\* before, and the result.
KafkaPass(offset, raw, stk, fault, r) ==
    [offset |-> offset, raw |-> raw, stock_before |-> stk, fault |-> fault,
     stock_after |-> r.stock, calls |-> r.calls, exc |-> r.exc,
     committed |-> r.committed, crashed |-> r.crashed]

\* consumer.poll returns the message after the committed offset and the
\* loop handles it.  A process that was killed is started again: main()
\* begins with the initial stock and the consumer group's committed offset.
KafkaPoll(fault) ==
    /\ committed < Len(order_topic)
    /\ fault \in KafkaFatal => kafka_crashes < MaxCrashes
    /\ \E r \in {kafka_handle(order_topic[committed + 1], stock, fault)} :
       LET raw == order_topic[committed + 1]
       IN  /\ stock' = IF r.crashed THEN InitialStock ELSE r.stock
           /\ committed' = IF r.committed THEN committed + 1 ELSE committed
           /\ inventory_topic' = inventory_topic \o ProducedTo(r.calls, INVENTORY_TOPIC)
           /\ dlq_topic' = dlq_topic \o ProducedTo(r.calls, DLQ_TOPIC)
           /\ kafka_log' = Append(kafka_log, KafkaPass(committed + 1, raw, stock, fault, r))
           /\ kafka_crashes' = IF r.crashed THEN kafka_crashes + 1 ELSE kafka_crashes
    /\ UNCHANGED <<order_topic, rabbitVars, orderVars, restVars>>

\* An OrderPlaced event as producer_order builds it (event_id, student_id
\* and event_time left out).
KafkaOrderPlaced(order_id, item_id, qty) ==
    Compact(<<Pair("event_type", Str("OrderPlaced")), Pair("order_id", order_id),
              Pair("item_id", item_id), Pair("qty", qty)>>)

\* What the producers of the order topic send.
KafkaBodies ==
    { KafkaOrderPlaced(Str("k1"), Str("burrito"), Num(1)),
      KafkaOrderPlaced(Str("k2"), Str("burrito"), Num(6000)),
      KafkaOrderPlaced(Str("k3"), Str("taco"), Str("abc")),
      Compact(<<Pair("event_type", Str("OrderCancelled")), Pair("order_id", Str("k4"))>>),
      Compact(<<Pair("event_type", Str("OrderPlaced")), Pair("order_id", Str("k5")),
                Pair("item_id", Str("taco"))>>),
      NotJson, NotUtf8 }

\* A producer appends a message to the order topic.
KafkaProduce(body) ==
    /\ Len(order_topic) < MaxPublished
    /\ order_topic' = Append(order_topic, body)
    /\ UNCHANGED <<stock, committed, inventory_topic, dlq_topic, kafka_log, kafka_crashes,
                   rabbitVars, orderVars, restVars>>

NextKafka ==
    \/ \E body \in KafkaBodies : KafkaProduce(body)
    \/ \E fault \in KafkaFaults : KafkaPoll(fault)

SpecKafka == Init /\ [][NextKafka]_vars

(***************************************************************************)
(* Claims about the Kafka inventory consumer.                              *)
(***************************************************************************)
Passes == 1..Len(kafka_log)

\* Pass j handles a message that an earlier pass has handled already.
Redelivery(j) == \E i \in Passes : i < j /\ kafka_log[i].offset = kafka_log[j].offset

\* The outcome events pass j produced.
OutcomeEvents(j) == ProducedTo(kafka_log[j].calls, INVENTORY_TOPIC)

(***************************************************************************)
(* C30: when a message of the order topic is delivered again, for example  *)
(* after a crash between producing the outcome and committing the offset,  *)
(* handling it again does not decrement the stock of its item and          *)
(* produces no second outcome event for its order id.                      *)
(***************************************************************************)
C30_IdempotentRedelivery ==
    \A j \in Passes :
        Redelivery(j) =>
            /\ kafka_log[j].stock_after = kafka_log[j].stock_before
            /\ OutcomeEvents(j) = <<>>

\* The calls of pass j.
CallsOf(j) == kafka_log[j].calls

\* Call c of pass j is a commit, made right after a produce call and the
\* flush call that followed it both returned.
AfterProduceAndFlush(j, c) ==
    /\ c >= 3
    /\ CallsOf(j)[c - 2].op = "produce" /\ CallsOf(j)[c - 2].ok
    /\ CallsOf(j)[c - 1].op = "flush" /\ CallsOf(j)[c - 1].ok

\* Pass j produced an event, outcome or dead letter, for its message.
ProducedEvent(j) ==
    ProducedTo(CallsOf(j), INVENTORY_TOPIC) \o ProducedTo(CallsOf(j), DLQ_TOPIC) # <<>>

(***************************************************************************)
(* C33: the consumer calls commit for a message only right after a produce *)
(* call for that message (the outcome event, or the dead-letter event) and *)
(* the flush call after it have returned; every offset the group has       *)
(* committed belongs to a message for which an event was produced.  A pass *)
(* that handled an OrderPlaced message without an exception committed only *)
(* after producing its outcome event.                                      *)
(***************************************************************************)
C33_CommitAfterProduce ==
    /\ \A j \in Passes :
          /\ \A c \in 1..Len(CallsOf(j)) :
                CallsOf(j)[c].op = "commit" => AfterProduceAndFlush(j, c)
          /\ (kafka_log[j].committed /\ kafka_log[j].exc = "none") =>
                /\ OutcomeEvents(j) # <<>>
                /\ CallsOf(j)[1].topic = INVENTORY_TOPIC
    /\ \A o \in 1..committed :
          \E j \in Passes :
              kafka_log[j].offset = o /\ kafka_log[j].committed /\ ProducedEvent(j)

\* Reached: one message committed after its outcome event, another committed
\* after producing the outcome raised and the dead-letter event was produced.
C33_Witness ==
    /\ \E j \in Passes :
          kafka_log[j].committed /\ kafka_log[j].exc = "none" /\ OutcomeEvents(j) # <<>>
    /\ \E j \in Passes :
          kafka_log[j].committed /\ kafka_log[j].fault = "produce"
          /\ kafka_log[j].exc = "BufferError"

\* The poison messages: a payload that does not decode, a decoded object of
\* another event type, an OrderPlaced object with a field missing, and one
\* whose qty int() does not accept.
KafkaPoisonMessage(raw) ==
    LET dec == json_loads(raw)
        event == dec.v
    IN  \/ dec.exc # "none"
        \/ /\ event.t = "dict"
           /\ \/ DictGet(event, "event_type") # Str("OrderPlaced")
              \/ MissingKey(event) # ""
              \/ PyInt(DictGet(event, "qty")).exc # "none"

(***************************************************************************)
(* C34: every pass of the loop over a poison message produces one event to *)
(* the DLQ topic, carrying an error text and the text of the raw payload,  *)
(* flushes, and then commits the offset of the message, so that the        *)
(* partition moves on to the next message.                                 *)
(***************************************************************************)
C34_PoisonDeadLettered ==
    \A j \in Passes :
        KafkaPoisonMessage(kafka_log[j].raw) =>
            /\ Len(CallsOf(j)) = 3
            /\ CallsOf(j)[1].op = "produce" /\ CallsOf(j)[1].ok
            /\ CallsOf(j)[1].topic = DLQ_TOPIC
            /\ CallsOf(j)[1].value.error # ""
            /\ CallsOf(j)[1].value.raw = DecodeReplace(kafka_log[j].raw)
            /\ CallsOf(j)[2].op = "flush"
            /\ CallsOf(j)[3].op = "commit" /\ CallsOf(j)[3].ok
            /\ kafka_log[j].committed
            /\ committed >= kafka_log[j].offset

\* The dead-letter events pass j produced.
DlqEvents(j) == ProducedTo(CallsOf(j), DLQ_TOPIC)

(***************************************************************************)
(* C39: a pass that produced a dead-letter event left the stock as it was  *)
(* and produced no outcome event; every pass that consumed its message     *)
(* (committed its offset) produced exactly one event, an outcome event or  *)
(* a dead-letter event, and never one of each.                             *)
(***************************************************************************)
C39_DeadLetterHasNoEffect ==
    \A j \in Passes :
        /\ DlqEvents(j) # <<>> =>
              /\ kafka_log[j].stock_after = kafka_log[j].stock_before
              /\ OutcomeEvents(j) = <<>>
        /\ kafka_log[j].committed => Len(OutcomeEvents(j)) + Len(DlqEvents(j)) = 1

\* A RESERVED event for the order id with hash key k has reached the
\* exchange.
ReservedPublished(k) ==
    \E i \in 1..Len(exchange_out) :
        /\ exchange_out[i].routing_key = "inventory.reserved"
        /\ FieldOf(exchange_out[i].body, "status") = Str("RESERVED")
        /\ HashKey(FieldOf(exchange_out[i].body, "order_id")) = k

(***************************************************************************)
(* C37: every order id in processed_orders has had its RESERVED event      *)
(* published: in no reachable state, after publish failures and            *)
(* redeliveries included, is an order id marked processed without that.    *)
(***************************************************************************)
C37_ProcessedWasPublished ==
    \A k \in processed_orders : ReservedPublished(k)

(***************************************************************************)
(* The consumer started on three events that ask for sushi: 40 for o1,     *)
(* more than the 30 in stock, 20 for o1 and 20 for o2, in any order and    *)
(* with repetitions (an event sent or delivered again).                    *)
(***************************************************************************)
RedeliverBodies ==
    { OrderPlacedBody(Str("o1"), Str("sushi"), Num(40)),
      OrderPlacedBody(Str("o1"), Str("sushi"), Num(20)),
      OrderPlacedBody(Str("o2"), Str("sushi"), Num(20)) }

InitRedeliver ==
    /\ InitConsumer
    /\ inventory_queue \in { <<a, b, c>> : a \in RedeliverBodies,
                                           b \in RedeliverBodies,
                                           c \in RedeliverBodies }
    /\ published = Len(inventory_queue)

SpecRedeliver == InitRedeliver /\ [][NextConsumer]_vars

\* The delivery was rejected for insufficient stock: the FAILED event was
\* handed to basic_publish and the ledger was left alone.
RejectedShort(d) ==
    /\ ShortOfStock(d)
    /\ DecidedFailed(d)
    /\ ~DecidedReserved(d)
    /\ d.inv_after = d.inv_before

\* No step increases a quantity of the ledger.
LedgerNeverIncreases ==
    [][\A i \in DOMAIN inventory : inventory'[i] <= inventory[i]]_vars

\* Delivery j is a later delivery of the event of delivery i.
DeliveredAgain(i, j) == i < j /\ deliveries[j].body = deliveries[i].body

(***************************************************************************)
(* C38 (as stated): no step increases a ledger quantity, and once an event *)
(* has been rejected for insufficient stock every later delivery of the    *)
(* identical event is rejected for insufficient stock again.               *)
(***************************************************************************)
C38_RejectionRepeats ==
    /\ LedgerNeverIncreases
    /\ [](\A i \in Deliveries : \A j \in Deliveries :
            (DeliveredAgain(i, j) /\ RejectedShort(deliveries[i]))
            => RejectedShort(deliveries[j]))

(***************************************************************************)
(* C38 (amended): no step increases a ledger quantity, and once an event   *)
(* has been rejected for insufficient stock no later delivery of the       *)
(* identical event is RESERVED or changes the ledger: it is rejected for   *)
(* insufficient stock again, unless another event of the same order id has *)
(* been RESERVED in between, in which case it is acknowledged as a         *)
(* duplicate without any outcome event.                                    *)
(***************************************************************************)
C38_RejectionNeverFlips ==
    /\ LedgerNeverIncreases
    /\ [](\A i \in Deliveries : \A j \in Deliveries :
            (DeliveredAgain(i, j) /\ RejectedShort(deliveries[i]))
            => /\ ~DecidedReserved(deliveries[j])
               /\ deliveries[j].inv_after = deliveries[j].inv_before
               /\ IF ReservedBefore(j)
                  THEN AckedWithoutSideEffects(deliveries[j])
                  ELSE RejectedShort(deliveries[j]))

\* Reached: the event for 40 sushi was rejected, delivered again and
\* rejected again, and the ledger went down in between.
C38_Witness ==
    \E i \in Deliveries : \E j \in Deliveries :
        /\ DeliveredAgain(i, j)
        /\ RejectedShort(deliveries[i])
        /\ RejectedShort(deliveries[j])
        /\ deliveries[j].inv_before["sushi"] < deliveries[i].inv_before["sushi"]

(***************************************************************************)
(* Part 4.  The synchronous REST services: src/sync-rest/order_service,    *)
(* src/sync-rest/inventory_service, src/sync-rest/notification_service     *)
(***************************************************************************)
\* InventoryStore.get_stock(item_id): self._inventory.get(item_id, 0)
get_stock(inv, item_id) == IF item_id \in DOMAIN inv THEN inv[item_id] ELSE 0

\* self._inventory[item_id] = count
SetStock(inv, item_id, count) ==
    [i \in DOMAIN inv \cup {item_id} |-> IF i = item_id THEN count ELSE inv[i]]

\* Mutant: a successful call leaves the stock as it was.
reserve_NoDecrement(inv, item_id, quantity) ==
    LET current_stock == get_stock(inv, item_id)
    IN  IF current_stock >= quantity
        THEN [inventory |-> inv,
              result |-> <<TRUE, current_stock - quantity, current_stock>>]
        ELSE [inventory |-> inv, result |-> <<FALSE, current_stock, current_stock>>]

\* Mutant: the check leaves out the case of a request for all that is left.
reserve_StrictlyMore(inv, item_id, quantity) ==
    LET current_stock == get_stock(inv, item_id)
    IN  IF current_stock > quantity
        THEN [inventory |-> SetStock(inv, item_id, current_stock - quantity),
              result |-> <<TRUE, current_stock - quantity, current_stock>>]
        ELSE [inventory |-> inv, result |-> <<FALSE, current_stock, current_stock>>]

\* InventoryStore.reserve(item_id, quantity): the inventory afterwards and
\* the tuple returned, (success, remaining, available_before_reservation).
reserve(inv, item_id, quantity) ==
    LET current_stock == get_stock(inv, item_id)
    IN  IF current_stock >= quantity
        THEN [inventory |-> SetStock(inv, item_id, current_stock - quantity),
              result |-> <<TRUE, get_stock(SetStock(inv, item_id, current_stock - quantity),
                                           item_id),
                           current_stock>>]
        ELSE [inventory |-> inv, result |-> <<FALSE, current_stock, current_stock>>]

\* What create_order answers: the HTTP status, the status field of an
\* OrderResponse, the code of an ErrorResponse, and whether the body carries
\* the order id.  A code of 0 stands for no answer yet.
RestResponse(code, status, error) ==
    [code |-> code, status |-> status, error |-> error, order_id |-> code # 0]

NoResponse == [code |-> 0, status |-> "", error |-> "", order_id |-> FALSE]

\* Mutant: an answer of the inventory service with status 500 or more is
\* taken for a reservation.
AfterReserve_IgnoresErrors(status_code) ==
    IF status_code = 409 THEN RestResponse(409, "", "INVENTORY_OUT_OF_STOCK")
    ELSE IF status_code >= 400 /\ status_code < 500
    THEN RestResponse(500, "", "Internal Server Error")
    ELSE NoResponse

\* create_order after reserve_inventory returned inv_response: 409 and
\* status codes from 500 are answered at once; raise_for_status() raises
\* HTTPStatusError for any other error status, which neither except clause
\* catches, so that the framework answers 500; otherwise the handler goes
\* on to the notification.
AfterReserve(status_code) ==
    IF status_code = 409 THEN RestResponse(409, "", "INVENTORY_OUT_OF_STOCK")
    ELSE IF status_code >= 500 THEN RestResponse(502, "", "INVENTORY_ERROR")
    ELSE IF status_code >= 400 THEN RestResponse(500, "", "Internal Server Error")
    ELSE NoResponse

\* except httpx.TimeoutException
InventoryTimedOut == RestResponse(504, "", "INVENTORY_TIMEOUT")

\* except httpx.RequestError
InventoryNotReached == RestResponse(503, "", "INVENTORY_UNREACHABLE")

\* What can happen to the call of send_notification: it returns a 2xx
\* answer, it times out after the service has handled the request, the
\* service is not reached, or an answer with an error status comes back.
NotificationFaults == {"none", "timeout", "unreachable", "status"}

\* The notification service has handled the request.
NotificationReceived(fault) == fault \in {"none", "timeout"}

\* Mutant: a failed notification puts the reserved quantity back.
AfterNotification_RollsBack(fault, inv, item_id, quantity) ==
    IF fault = "none"
    THEN [response |-> RestResponse(200, "CONFIRMED", ""), inventory |-> inv]
    ELSE [response |-> RestResponse(502, "", "NOTIFICATION_FAILURE"),
          inventory |-> SetStock(inv, item_id, get_stock(inv, item_id) + quantity)]

\* create_order after send_notification: any exception of the call or of
\* raise_for_status() is answered 502; the inventory is not touched.
AfterNotification(fault, inv, item_id, quantity) ==
    IF fault = "none"
    THEN [response |-> RestResponse(200, "CONFIRMED", ""), inventory |-> inv]
    ELSE [response |-> RestResponse(502, "", "NOTIFICATION_FAILURE"), inventory |-> inv]

\* One call of create_order: the request, where the handler is ("reserve":
\* awaiting reserve_inventory, "notify": about to call send_notification,
\* "done"), where its request to /reserve is ("sent", "lost", "sleeping",
\* "answered"), the status the inventory service answered (0: none yet),
\* inv_response.status_code as create_order got it (0: no answer), the
\* exception reserve_inventory raised, whether send_notification was called
\* and what happened to that call, and the response.  The order id
\* generated for the call is its position in rest_orders.
RestOrder(item_id, quantity) ==
    [user_id |-> "u123", item_id |-> item_id, quantity |-> quantity,
     at |-> "reserve", call |-> "sent", inv_status |-> 0, inv_response |-> 0,
     exc |-> "", notified |-> FALSE, fault |-> "", response |-> NoResponse]

RestOrders == 1..Len(rest_orders)

\* POST /order arrives with a valid OrderRequest; create_order calls
\* reserve_inventory.
CreateOrder(item_id, quantity) ==
    /\ Len(rest_orders) < MaxOrders
    /\ rest_orders' = Append(rest_orders, RestOrder(item_id, quantity))
    /\ UNCHANGED <<store_inventory, INVENTORY_FAIL_MODE, INVENTORY_DELAY_MS, reserve_calls,
                   notifications, rabbitVars, orderVars, kafkaVars>>

\* What reserve_calls keeps of a call of store.reserve for order r.
ReserveCall(r, item_id, quantity, inv, res) ==
    [order |-> r, item_id |-> item_id, quantity |-> quantity,
     before |-> get_stock(inv, item_id), after |-> get_stock(res.inventory, item_id),
     success |-> res.result[1], remaining |-> res.result[2], available |-> res.result[3],
     late |-> rest_orders[r].at # "reserve"]

\* reserve() from "Process Reservation" on: store.reserve and the answer,
\* 200 or 409.
ProcessReservation(r) ==
    \E res \in {reserve(store_inventory, rest_orders[r].item_id, rest_orders[r].quantity)} :
        /\ store_inventory' = res.inventory
        /\ reserve_calls' = Append(reserve_calls,
               ReserveCall(r, rest_orders[r].item_id, rest_orders[r].quantity, store_inventory, res))
        /\ rest_orders' = [rest_orders EXCEPT
               ![r].call = "answered",
               ![r].inv_status = IF res.result[1] THEN 200 ELSE 409]

\* The inventory service receives POST /reserve of order r: in forced
\* failure mode it answers 500; with an artificial delay it sleeps;
\* otherwise it processes the reservation.
Reserve(r) ==
    /\ r \in RestOrders
    /\ rest_orders[r].call = "sent"
    /\ IF INVENTORY_FAIL_MODE
       THEN /\ rest_orders' = [rest_orders EXCEPT ![r].call = "answered",
                                                  ![r].inv_status = 500]
            /\ UNCHANGED <<store_inventory, reserve_calls>>
       ELSE IF INVENTORY_DELAY_MS > 0
       THEN /\ rest_orders' = [rest_orders EXCEPT ![r].call = "sleeping"]
            /\ UNCHANGED <<store_inventory, reserve_calls>>
       ELSE ProcessReservation(r)
    /\ UNCHANGED <<INVENTORY_FAIL_MODE, INVENTORY_DELAY_MS, notifications,
                   rabbitVars, orderVars, kafkaVars>>

\* await asyncio.sleep(delay_sec) returns and reserve() goes on, whether or
\* not its caller is still waiting for the answer.
ReserveAfterDelay(r) ==
    /\ r \in RestOrders
    /\ rest_orders[r].call = "sleeping"
    /\ ProcessReservation(r)
    /\ UNCHANGED <<INVENTORY_FAIL_MODE, INVENTORY_DELAY_MS, notifications,
                   rabbitVars, orderVars, kafkaVars>>

\* create_order gets the answer of the inventory service.
InventoryAnswer(r) ==
    /\ r \in RestOrders
    /\ rest_orders[r].at = "reserve"
    /\ rest_orders[r].call = "answered"
    /\ LET resp == AfterReserve(rest_orders[r].inv_status)
       IN  rest_orders' = [rest_orders EXCEPT
               ![r].at = IF resp = NoResponse THEN "notify" ELSE "done",
               ![r].inv_response = rest_orders[r].inv_status,
               ![r].response = resp]
    /\ UNCHANGED <<store_inventory, INVENTORY_FAIL_MODE, INVENTORY_DELAY_MS, reserve_calls,
                   notifications, rabbitVars, orderVars, kafkaVars>>

\* The timeout of reserve_inventory (ORDER_INVENTORY_TIMEOUT_MS) expires
\* before the answer has come: httpx raises a TimeoutException.  The
\* request itself stays where it is.
InventoryTimeout(r) ==
    /\ r \in RestOrders
    /\ rest_orders[r].at = "reserve"
    /\ rest_orders' = [rest_orders EXCEPT ![r].at = "done",
                                          ![r].exc = "TimeoutException",
                                          ![r].response = InventoryTimedOut]
    /\ UNCHANGED <<store_inventory, INVENTORY_FAIL_MODE, INVENTORY_DELAY_MS, reserve_calls,
                   notifications, rabbitVars, orderVars, kafkaVars>>

\* The inventory service cannot be reached: httpx raises a RequestError
\* that is no timeout, and the request never arrives.
InventoryUnreachable(r) ==
    /\ r \in RestOrders
    /\ rest_orders[r].at = "reserve"
    /\ rest_orders[r].call = "sent"
    /\ rest_orders' = [rest_orders EXCEPT ![r].at = "done", ![r].call = "lost",
                                          ![r].exc = "RequestError",
                                          ![r].response = InventoryNotReached]
    /\ UNCHANGED <<store_inventory, INVENTORY_FAIL_MODE, INVENTORY_DELAY_MS, reserve_calls,
                   notifications, rabbitVars, orderVars, kafkaVars>>

\* create_order calls send_notification and answers.
SendNotification(r, fault) ==
    /\ r \in RestOrders
    /\ rest_orders[r].at = "notify"
    /\ LET a == AfterNotification(fault, store_inventory, rest_orders[r].item_id,
                                  rest_orders[r].quantity)
       IN  /\ rest_orders' = [rest_orders EXCEPT ![r].at = "done", ![r].notified = TRUE,
                                                 ![r].fault = fault,
                                                 ![r].response = a.response]
           /\ store_inventory' = a.inventory
    /\ notifications' = IF NotificationReceived(fault) THEN Append(notifications, r)
                        ELSE notifications
    /\ UNCHANGED <<INVENTORY_FAIL_MODE, INVENTORY_DELAY_MS, reserve_calls,
                   rabbitVars, orderVars, kafkaVars>>

\* The order requests of the model: one burger as in the happy-path test,
\* 30 burgers (two such orders exceed the 50 in stock), 60 burgers, a
\* quantity of -1, and nothing of an item the store does not know.
RestRequests ==
    { <<"burger", 1>>, <<"burger", 30>>, <<"burger", 60>>, <<"burger", -1>>,
      <<"kale", 0>> }

NextRest ==
    \/ \E q \in RestRequests : CreateOrder(q[1], q[2])
    \/ \E r \in RestOrders : Reserve(r)
    \/ \E r \in RestOrders : ReserveAfterDelay(r)
    \/ \E r \in RestOrders : InventoryAnswer(r)
    \/ \E r \in RestOrders : InventoryTimeout(r)
    \/ \E r \in RestOrders : InventoryUnreachable(r)
    \/ \E r \in RestOrders : \E fault \in NotificationFaults : SendNotification(r, fault)

\* The services started with any configuration of the inventory service:
\* forced failure mode on or off, no delay or the 2000 ms of the timeout test.
InitRest ==
    /\ InitOrderService
    /\ orders = Dict(<<>>)
    /\ InitKafka
    /\ inventory = InitialInventory
    /\ processed_orders = {}
    /\ inventory_queue = <<>>
    /\ unacked = <<>>
    /\ dlq_queue = <<>>
    /\ exchange_out = <<>>
    /\ pc = "connect"
    /\ published = 0
    /\ deliveries = <<>>
    /\ conn = "none"
    /\ ch = <<>>
    /\ attempts = <<>>
    /\ exit_code = -1
    /\ \E fail_mode \in BOOLEAN : \E delay_ms \in {0, 2000} :
           InitSyncRest(fail_mode, delay_ms)

SpecRest == InitRest /\ [][NextRest]_vars

(***************************************************************************)
(* Claims about the synchronous REST services.                             *)
(***************************************************************************)
ReserveCalls == 1..Len(reserve_calls)

(***************************************************************************)
(* C35: a call of store.reserve(item, quantity) succeeds exactly when the  *)
(* stock of the item is at least quantity; on success the stock goes down  *)
(* by quantity and the call returns (True, new stock, stock before); on    *)
(* failure the stock stays and the call returns (False, stock, stock); no  *)
(* call touches the stock of another item, and after any sequence of calls *)
(* the stock of every item is at least 0.                                  *)
(***************************************************************************)
C35_ReserveContract ==
    /\ \A k \in ReserveCalls :
          LET c == reserve_calls[k]
          IN  /\ c.success <=> c.before >= c.quantity
              /\ c.success =>
                    /\ c.after = c.before - c.quantity
                    /\ c.remaining = c.after
                    /\ c.available = c.before
              /\ ~c.success =>
                    /\ c.after = c.before
                    /\ c.remaining = c.before
                    /\ c.available = c.before
    /\ \A i \in DOMAIN store_inventory : store_inventory[i] >= 0
    /\ \A i \in DOMAIN InitialStore :
          i \in DOMAIN store_inventory
          /\ (i # "burger" => store_inventory[i] = InitialStore[i])

\* Reached: a call that took the stock of burgers to 20 and a call for 30
\* that failed on those 20.
C35_Witness ==
    /\ \E k \in ReserveCalls :
          reserve_calls[k].success /\ reserve_calls[k].after = 20
    /\ \E k \in ReserveCalls :
          ~reserve_calls[k].success /\ reserve_calls[k].before = 20
          /\ reserve_calls[k].quantity = 30

\* The calls of store.reserve made for order r.
ReserveCallsOf(r) == { k \in ReserveCalls : reserve_calls[k].order = r }

\* Order r had its quantity reserved: one call of store.reserve, which found
\* at least the quantity and took exactly the quantity.
ReservedExactly(r) ==
    /\ Cardinality(ReserveCallsOf(r)) = 1
    /\ \A k \in ReserveCallsOf(r) :
          /\ reserve_calls[k].success
          /\ reserve_calls[k].item_id = rest_orders[r].item_id
          /\ reserve_calls[k].before >= rest_orders[r].quantity
          /\ reserve_calls[k].after = reserve_calls[k].before - rest_orders[r].quantity

\* The handler of order r has answered.
Answered(r) == rest_orders[r].at = "done"

(***************************************************************************)
(* C31: an order whose notification call succeeded, which implies that the *)
(* inventory held at least its quantity, is answered 200 with status       *)
(* CONFIRMED and an order id, and the reservation took exactly its         *)
(* quantity from the stock of its item: with this order alone, the stock   *)
(* of the item afterwards is the initial stock minus the quantity.  No     *)
(* other order is answered 200.                                            *)
(***************************************************************************)
C31_HappyPath ==
    \A r \in RestOrders :
        LET o == rest_orders[r]
        IN  /\ (Answered(r) /\ o.fault = "none") =>
                  /\ o.response.code = 200
                  /\ o.response.status = "CONFIRMED"
                  /\ o.response.order_id
                  /\ ReservedExactly(r)
                  /\ Len(rest_orders) = 1 =>
                        get_stock(store_inventory, o.item_id)
                          = get_stock(InitialStore, o.item_id) - o.quantity
            /\ o.response.code = 200 => (Answered(r) /\ o.fault = "none")

\* Reached: the order of the happy-path test, one burger, answered 200 with
\* 49 burgers left.
C31_Witness ==
    /\ Len(rest_orders) = 1
    /\ rest_orders[1].item_id = "burger" /\ rest_orders[1].quantity = 1
    /\ rest_orders[1].response.code = 200
    /\ rest_orders[1].response.status = "CONFIRMED"
    /\ store_inventory["burger"] = 49

\* create_order did not go past the inventory call for order r: no
\* notification was sent for it and it is not reported CONFIRMED.
StoppedAtInventory(r) ==
    /\ ~rest_orders[r].notified
    /\ \A n \in 1..Len(notifications) : notifications[n] # r
    /\ rest_orders[r].response.status # "CONFIRMED"
    /\ rest_orders[r].response.code # 200

(***************************************************************************)
(* C32: in create_order an inventory call that times out is answered 504   *)
(* with code INVENTORY_TIMEOUT, an inventory answer with a status of 500   *)
(* or more is answered 502 with code INVENTORY_ERROR, and an inventory     *)
(* answer 409 is answered 409 with code INVENTORY_OUT_OF_STOCK; in each    *)
(* case no notification is sent and the order is not reported CONFIRMED.   *)
(* A notification is sent only for an order whose reservation succeeded.   *)
(***************************************************************************)
C32_FailureMapping ==
    \A r \in RestOrders :
        LET o == rest_orders[r]
        IN  /\ o.exc = "TimeoutException" =>
                  /\ o.response = RestResponse(504, "", "INVENTORY_TIMEOUT")
                  /\ StoppedAtInventory(r)
            /\ o.inv_response >= 500 =>
                  /\ o.response = RestResponse(502, "", "INVENTORY_ERROR")
                  /\ StoppedAtInventory(r)
            /\ o.inv_response = 409 =>
                  /\ o.response = RestResponse(409, "", "INVENTORY_OUT_OF_STOCK")
                  /\ StoppedAtInventory(r)
            /\ (o.notified \/ \E n \in 1..Len(notifications) : notifications[n] = r) =>
                  /\ o.inv_response = 200
                  /\ \E k \in ReserveCallsOf(r) : reserve_calls[k].success

\* Reached: one order timed out and another was refused for lack of stock,
\* and in another run the forced failure was answered 502.
C32_Witness ==
    \/ /\ \E r \in RestOrders : rest_orders[r].response.code = 504
       /\ \E r \in RestOrders :
             rest_orders[r].response.code = 409 /\ rest_orders[r].inv_response = 409
    \/ /\ \E r \in RestOrders :
             rest_orders[r].response.code = 502 /\ rest_orders[r].inv_response = 500
       /\ \E r \in RestOrders : rest_orders[r].response.code = 504

(***************************************************************************)
(* C36: an order whose reservation succeeded and whose notification call   *)
(* failed is answered 502 with code NOTIFICATION_FAILURE, and its          *)
(* reservation stays: the step that answers leaves the inventory as it is, *)
(* and with this order alone the stock of its item stays at the initial    *)
(* stock minus the quantity.                                               *)
(***************************************************************************)
NotificationFailed(r) ==
    rest_orders[r].notified /\ rest_orders[r].fault # "none"

C36_NoRollback ==
    /\ [](\A r \in RestOrders :
            NotificationFailed(r) =>
                /\ rest_orders[r].response = RestResponse(502, "", "NOTIFICATION_FAILURE")
                /\ ReservedExactly(r)
                /\ Len(rest_orders) = 1 =>
                      get_stock(store_inventory, rest_orders[r].item_id)
                        = get_stock(InitialStore, rest_orders[r].item_id)
                            - rest_orders[r].quantity)
    /\ [][\A r \in RestOrders :
            (rest_orders[r].at = "notify" /\ rest_orders'[r].at = "done")
            => store_inventory' = store_inventory]_vars

\* Reached: 30 burgers reserved, the notification not delivered, 502
\* answered and 20 burgers left.
C36_Witness ==
    /\ Len(rest_orders) = 1
    /\ rest_orders[1].quantity = 30
    /\ rest_orders[1].fault = "unreachable"
    /\ rest_orders[1].response.code = 502
    /\ store_inventory["burger"] = 20

\* Order r was answered 504 INVENTORY_TIMEOUT.
GaveUp(r) == rest_orders[r].response = InventoryTimedOut

(***************************************************************************)
(* C40: for an order answered 504 INVENTORY_TIMEOUT the stock is not       *)
(* decremented, neither before the answer nor afterwards: no call of       *)
(* store.reserve for that order ever takes anything from the stock.        *)
(***************************************************************************)
C40_TimeoutReservesNothing ==
    \A r \in RestOrders :
        GaveUp(r) =>
            \A k \in ReserveCallsOf(r) : reserve_calls[k].after >= reserve_calls[k].before
====
